---- MODULE Spec2Model ----
(***************************************************************************)
(* TinyG G-code interpreter (firmware/tinyg_exp/gcode.c).                  *)
(*                                                                         *)
(* One line of text is handed to gc_gcode_parser, which normalizes it in   *)
(* place, tokenizes it into letter+number statements, accumulates them in  *)
(* gn (next state) and gf (changed flags) and dispatches them to the       *)
(* canonical machine (cm_* functions) in a fixed order.                    *)
(*                                                                         *)
(* Characters are 7-bit ASCII codes, a C string is a sequence of codes     *)
(* ending in NUL; C index k of a buffer b is b[k+1].  Doubles are modelled *)
(* in fixed point, in hundredths (the value 1.5 is 150).                   *)
(***************************************************************************)
EXTENDS Integers, Sequences, FiniteSets, TLC

(* ------------------------------ bounds -------------------------------- *)

\* number of input units (statements, characters, chunks) the caller
\* receives over a run
MaxRx == 3

\* the longest line the 8-bit counters i and j of the normalizer can index
MaxLine == 255

(* ---------------------------- characters ------------------------------ *)

\* the ASCII codes of the characters the model names
Ascii ==
    "NUL" :> 0 @@ "TAB" :> 9 @@ " " :> 32 @@ "#" :> 35 @@ "$" :> 36
    @@ "%" :> 37 @@ "&" :> 38 @@ "(" :> 40 @@ ")" :> 41 @@ "*" :> 42
    @@ "+" :> 43 @@ "-" :> 45 @@ "." :> 46 @@ "/" :> 47 @@ "0" :> 48
    @@ "1" :> 49 @@ "2" :> 50 @@ "3" :> 51 @@ "4" :> 52 @@ "5" :> 53
    @@ "6" :> 54 @@ "7" :> 55 @@ "8" :> 56 @@ "9" :> 57 @@ "E" :> 69
    @@ "e" :> 101 @@ "F" :> 70
    @@ "G" :> 71 @@ "H" :> 72 @@ "I" :> 73 @@ "J" :> 74 @@ "K" :> 75
    @@ "M" :> 77 @@ "N" :> 78 @@ "P" :> 80 @@ "Q" :> 81 @@ "R" :> 82
    @@ "S" :> 83 @@ "T" :> 84 @@ "X" :> 88 @@ "Y" :> 89 @@ "Z" :> 90
    @@ "\\" :> 92 @@ "g" :> 103 @@ "h" :> 104 @@ "i" :> 105 @@ "m" :> 109
    @@ "q" :> 113 @@ "s" :> 115 @@ "DEL" :> 127

Ord(s) == Ascii[s]

\* the C string literal written as a tuple of one-character strings
Str(t) == [k \in 1..Len(t) |-> Ord(t[k])]

isupper(c) == c \in 65..90
isdigit(c) == c \in 48..57
toupper(c) == IF c \in 97..122 THEN c - 32 ELSE c

\* the set strchr() searches at gcode.c:171
InvalidPunctuation ==
    {33, 36, 37, 44, 59, 58, 63, 64, 94, 95, 126, 96, 39, 34}

(* ----------------------------- C buffers ------------------------------ *)

At(b, k) == b[k + 1]
Put(b, k, c) == [b EXCEPT ![k + 1] = c]

RECURSIVE CStrFrom(_, _)
CStrFrom(b, k) ==
    IF At(b, k) = 0 THEN <<>> ELSE <<At(b, k)>> \o CStrFrom(b, k + 1)

CStr(b) == CStrFrom(b, 0)

(* ----------------------------- statuses ------------------------------- *)

TG_OK == "TG_OK"
TG_QUIT == "TG_QUIT"
TG_EXPECTED_COMMAND_LETTER == "TG_EXPECTED_COMMAND_LETTER"
TG_BAD_NUMBER_FORMAT == "TG_BAD_NUMBER_FORMAT"
TG_UNSUPPORTED_STATEMENT == "TG_UNSUPPORTED_STATEMENT"

(* ---------------------- _gc_normalize_gcode_block --------------------- *)

\* the copy loop with an opening parenthesis tossed like other punctuation
\* and the copy going on after it
RECURSIVE NormalizeLoop_ParenTossed(_, _, _)
NormalizeLoop_ParenTossed(block, i, j) ==
    LET c  == toupper(At(block, i))
        i1 == (i + 1) % 256
    IN  IF c = 0 THEN [block |-> block, i |-> i1, j |-> j, comment |-> -1]
        ELSE IF isupper(c) \/ isdigit(c)
            THEN NormalizeLoop_ParenTossed(Put(block, j, c), i1, (j + 1) % 256)
        ELSE IF c = Ord("(") \/ c <= Ord(" ") \/ c = 127 \/ c \in InvalidPunctuation
            THEN NormalizeLoop_ParenTossed(block, i1, j)
        ELSE NormalizeLoop_ParenTossed(Put(block, j, c), i1, (j + 1) % 256)

\* the copy loop of gcode.c:159-174; i and j are uint8_t.
\* comment is the C index of the first char past the opening paren, -1 for
\* the null pointer.
RECURSIVE NormalizeLoop(_, _, _)
NormalizeLoop(block, i, j) ==
    LET c  == toupper(At(block, i))
        i1 == (i + 1) % 256
    IN  IF c = 0 THEN [block |-> block, i |-> i1, j |-> j, comment |-> -1]
        ELSE IF isupper(c) \/ isdigit(c)
            THEN NormalizeLoop(Put(block, j, c), i1, (j + 1) % 256)
        ELSE IF c = Ord("(")
            THEN [block |-> Put(block, j, 0), i |-> i1, j |-> j, comment |-> i1]
        ELSE IF c <= Ord(" ") THEN NormalizeLoop(block, i1, j)
        ELSE IF c = 127 THEN NormalizeLoop(block, i1, j)
        ELSE IF c \in InvalidPunctuation THEN NormalizeLoop(block, i1, j)
        ELSE NormalizeLoop(Put(block, j, c), i1, (j + 1) % 256)

\* the MSG test without the toupper() calls
IsMsgComment_CaseSensitive(block, comment) ==
    /\ At(block, comment) = Ord("M")
    /\ At(block, comment + 1) = Ord("S")
    /\ At(block, comment + 2) = Ord("G")

\* gcode.c:177-179, evaluated left to right with short circuit
IsMsgComment(block, comment) ==
    /\ toupper(At(block, comment)) = Ord("M")
    /\ toupper(At(block, comment + 1)) = Ord("S")
    /\ toupper(At(block, comment + 2)) = Ord("G")

\* the three characters read whatever the first ones are
MsgPrefixReads_All(block, comment) == {comment, comment + 1, comment + 2}

\* the C indices of block that the test of gcode.c:177-179 reads: && goes on
\* to its right operand only if the left one holds
MsgPrefixReads(block, comment) ==
    {comment}
    \cup (IF toupper(At(block, comment)) = Ord("M")
          THEN {comment + 1}
               \cup (IF toupper(At(block, comment + 1)) = Ord("S")
                     THEN {comment + 2} ELSE {})
          ELSE {})

\* gcode.c:180-186: replace the first closing parenthesis of the comment by NUL
RECURSIVE StripParen(_, _, _)
StripParen(block, comment, i) ==
    LET c == At(block, comment + i)
    IN  IF c = 0 THEN block
        ELSE IF c = Ord(")") THEN Put(block, comment + i, 0)
        ELSE StripParen(block, comment, (i + 1) % 256)

\* The function once more, one pass of the copy loop at a time.  n is the
\* position in the function: pc ("idle" outside it, "loop" before a pass,
\* "end" once the loop is left), the counters i and j, the comment pointer
\* (-1 for null) and the stores the last step made.  A store is the C index
\* written, the read counter i when it is written (the loop has incremented
\* it past the character just read) and the part of the function writing.
Store(at, i, phase) == [at |-> at, i |-> i, phase |-> phase]

NzIdle == [pc |-> "idle", i |-> 0, j |-> 0, comment |-> -1, stores |-> <<>>]

\* gcode.c:150-157: the counters are zeroed, a deleted block is emptied and
\* the function left
NormalizeEntered(b) ==
    IF At(b, 0) = Ord("/")
    THEN [block |-> Put(b, 0, 0),
          nz |-> [NzIdle EXCEPT !.stores = <<Store(0, 0, "delete")>>]]
    ELSE [block |-> b, nz |-> [NzIdle EXCEPT !.pc = "loop"]]

\* block[j++] = c; i1 is the incremented read counter
NormalizeCopy(b, n, c, i1) ==
    [block |-> Put(b, n.j, c),
     nz |-> [n EXCEPT !.i = i1, !.j = (n.j + 1) % 256,
                      !.stores = <<Store(n.j, i1, "copy")>>]]

\* continue without a store
NormalizeToss(b, n, i1) == [block |-> b, nz |-> [n EXCEPT !.i = i1, !.stores = <<>>]]

\* one pass with the NUL of the '(' case stored at the read counter
NormalizePassed_NulAtRead(b, n) ==
    LET c  == toupper(At(b, n.i))
        i1 == (n.i + 1) % 256
    IN  IF c = 0
        THEN [block |-> b, nz |-> [n EXCEPT !.pc = "end", !.i = i1, !.stores = <<>>]]
        ELSE IF isupper(c) \/ isdigit(c) THEN NormalizeCopy(b, n, c, i1)
        ELSE IF c = Ord("(")
            THEN [block |-> Put(b, i1, 0),
                  nz |-> [n EXCEPT !.pc = "end", !.i = i1, !.comment = i1,
                                   !.stores = <<Store(i1, i1, "copy")>>]]
        ELSE IF c <= Ord(" ") THEN NormalizeToss(b, n, i1)
        ELSE IF c = 127 THEN NormalizeToss(b, n, i1)
        ELSE IF c \in InvalidPunctuation THEN NormalizeToss(b, n, i1)
        ELSE NormalizeCopy(b, n, c, i1)

\* one pass of the loop of gcode.c:159-174
NormalizePassed(b, n) ==
    LET c  == toupper(At(b, n.i))
        i1 == (n.i + 1) % 256
    IN  IF c = 0
        THEN [block |-> b, nz |-> [n EXCEPT !.pc = "end", !.i = i1, !.stores = <<>>]]
        ELSE IF isupper(c) \/ isdigit(c) THEN NormalizeCopy(b, n, c, i1)
        ELSE IF c = Ord("(")
            THEN [block |-> Put(b, n.j, 0),
                  nz |-> [n EXCEPT !.pc = "end", !.i = i1, !.comment = i1,
                                   !.stores = <<Store(n.j, i1, "copy")>>]]
        ELSE IF c <= Ord(" ") THEN NormalizeToss(b, n, i1)
        ELSE IF c = 127 THEN NormalizeToss(b, n, i1)
        ELSE IF c \in InvalidPunctuation THEN NormalizeToss(b, n, i1)
        ELSE NormalizeCopy(b, n, c, i1)

\* gcode.c:181-186: the comment-relative index of the first closing
\* parenthesis, -1 if the NUL comes first
RECURSIVE StripIndex(_, _, _)
StripIndex(block, comment, i) ==
    IF At(block, comment + i) = 0 THEN -1
    ELSE IF At(block, comment + i) = Ord(")") THEN i
    ELSE StripIndex(block, comment, (i + 1) % 256)

\* the store of comment[--i] = 0, if the loop of gcode.c:181 finds a ')'
StripStores(block, comment) ==
    IF StripIndex(block, comment, 0) = -1 THEN <<>>
    ELSE <<Store(comment + StripIndex(block, comment, 0),
                 StripIndex(block, comment, 0), "strip")>>

\* gcode.c:177-187 on the terminated command b: the paren of a message
\* comment is stripped and the message handed over
NormalizeMessage(b, n) ==
    IF n.comment # -1 /\ IsMsgComment(b, n.comment)
    THEN [block |-> StripParen(b, n.comment, 0),
          msgs |-> <<CStrFrom(StripParen(b, n.comment, 0), n.comment + 3)>>,
          nz |-> [n EXCEPT !.pc = "idle",
                           !.stores = <<Store(n.j, n.i, "terminate")>>
                                      \o StripStores(b, n.comment)]]
    ELSE [block |-> b, msgs |-> <<>>,
          nz |-> [n EXCEPT !.pc = "idle", !.stores = <<Store(n.j, n.i, "terminate")>>]]

\* gcode.c:175-188: block[j] = 0, the message handling, the return
NormalizeLeft(b, n) == NormalizeMessage(Put(b, n.j, 0), n)

\* the function without its block-delete test
NormalizeBlock_NoBlockDelete(block) ==
    LET l  == NormalizeLoop(block, 0, 0)
        b1 == Put(l.block, l.j, 0)
    IN  IF l.comment # -1 /\ IsMsgComment(b1, l.comment)
        THEN LET b2 == StripParen(b1, l.comment, 0)
             IN  [block |-> b2, msgs |-> <<CStrFrom(b2, l.comment + 3)>>]
        ELSE [block |-> b1, msgs |-> <<>>]

\* the whole function: the buffer afterwards and the messages handed to
\* cm_message (none or one)
NormalizeBlock(block) ==
    IF At(block, 0) = Ord("/")
    THEN [block |-> Put(block, 0, 0), msgs |-> <<>>]
    ELSE LET l  == NormalizeLoop(block, 0, 0)
             b1 == Put(l.block, l.j, 0)
         IN  IF l.comment # -1 /\ IsMsgComment(b1, l.comment)
             THEN LET b2 == StripParen(b1, l.comment, 0)
                  IN  [block |-> b2, msgs |-> <<CStrFrom(b2, l.comment + 3)>>]
             ELSE [block |-> b1, msgs |-> <<>>]

\* the indices the function reads for its MSG test on a line
NormalizeMsgReads(block) ==
    IF At(block, 0) = Ord("/") THEN {}
    ELSE LET l  == NormalizeLoop(block, 0, 0)
             b1 == Put(l.block, l.j, 0)
         IN  IF l.comment = -1 THEN {} ELSE MsgPrefixReads(b1, l.comment)

(* ------------------------------ doubles ------------------------------- *)

\* trunc() of a value in hundredths, and the (int) cast of gcode.c:275
trunc(v) == IF v >= 0 THEN (v \div 100) * 100 ELSE -(((-v) \div 100) * 100)
IntCast(v) == IF v >= 0 THEN v \div 100 ELSE -((-v) \div 100)

\* the run of decimal digits of buf from C index k on: how many there are,
\* their value and the value of the first two as a fraction in hundredths
RECURSIVE Digits(_, _, _)
Digits(buf, k, acc) ==
    IF isdigit(At(buf, k))
    THEN LET d == At(buf, k) - 48
         IN  Digits(buf, k + 1,
                    [n |-> acc.n + 1, v |-> acc.v * 10 + d,
                     f |-> IF acc.n = 0 THEN d * 10
                           ELSE IF acc.n = 1 THEN acc.f + d ELSE acc.f])
    ELSE [n |-> acc.n, v |-> acc.v, f |-> acc.f, end |-> k]

NoDigits == [n |-> 0, v |-> 0, f |-> 0]

\* the decimal part of a number at C index start: an optional sign, digits
\* with at most one radix point, at least one digit.  No conversion leaves
\* end = start and gives 0.
strtod_decimal(buf, start) ==
    LET neg  == At(buf, start) = Ord("-")
        k0   == IF At(buf, start) \in {Ord("+"), Ord("-")} THEN start + 1 ELSE start
        ip   == Digits(buf, k0, NoDigits)
        dot  == At(buf, ip.end) = Ord(".")
        fp   == IF dot THEN Digits(buf, ip.end + 1, NoDigits)
                ELSE [n |-> 0, v |-> 0, f |-> 0, end |-> ip.end]
        mag  == ip.v * 100 + fp.f
    IN  IF ip.n + fp.n = 0 THEN [value |-> 0, end |-> start]
        ELSE [value |-> IF neg THEN -mag ELSE mag, end |-> fp.end]

\* the exponent part at C index k, right after the decimal part: the letter
\* E in either case, an optional sign and at least one digit; anything else
\* is no exponent and is left unread
strtod_exponent(buf, k) ==
    IF At(buf, k) \in {Ord("E"), Ord("e")}
    THEN LET neg == At(buf, k + 1) = Ord("-")
             k1  == IF At(buf, k + 1) \in {Ord("+"), Ord("-")} THEN k + 2 ELSE k + 1
             d   == Digits(buf, k1, NoDigits)
         IN  IF d.n = 0 THEN [exp |-> 0, end |-> k]
             ELSE [exp |-> IF neg THEN -d.v ELSE d.v, end |-> d.end]
    ELSE [exp |-> 0, end |-> k]

RECURSIVE Pow10(_)
Pow10(n) == IF n = 0 THEN 1 ELSE 10 * Pow10(n - 1)

\* v * 10^e in hundredths (digits below a hundredth are dropped)
Scale10(v, e) ==
    IF e >= 0 THEN v * Pow10(e)
    ELSE IF v >= 0 THEN v \div Pow10(-e) ELSE -((-v) \div Pow10(-e))

strtod_scaled(m, x) == [value |-> Scale10(m.value, x.exp), end |-> x.end]

strtod_from(buf, start, m) ==
    IF m.end = start THEN m ELSE strtod_scaled(m, strtod_exponent(buf, m.end))

\* strtod() of avr-libc on the text at C index start: a decimal part and an
\* optional exponent.  (The INF and NAN forms need the letters I+N+F or N+A
\* right after a command letter; the inputs below contain none of them.)
strtod(buf, start) == strtod_from(buf, start, strtod_decimal(buf, start))

(* --------------------------- the GCodeModel --------------------------- *)

NEXT_ACTION_NONE == 0
NEXT_ACTION_MOTION == 1
NEXT_ACTION_DWELL == 2
NEXT_ACTION_GO_HOME == 3
NEXT_ACTION_OFFSET_COORDINATES == 4

MOTION_MODE_STRAIGHT_TRAVERSE == 0
MOTION_MODE_STRAIGHT_FEED == 1
MOTION_MODE_CW_ARC == 2
MOTION_MODE_CCW_ARC == 3
MOTION_MODE_CANCEL_MOTION_MODE == 4

CANON_PLANE_XY == 0
CANON_PLANE_XZ == 1
CANON_PLANE_YZ == 2

SPINDLE_OFF == 0
SPINDLE_CW == 1
SPINDLE_CCW == 2

PROGRAM_FLOW_STOP == 1
PROGRAM_FLOW_END == 2

X == 0
Y == 1
Z == 2

\* ZERO_MODEL_STATE: memset(g, 0, sizeof(struct GCodeModel))
ZERO_MODEL_STATE ==
    [next_action |-> 0, motion_mode |-> 0, target |-> <<0, 0, 0>>,
     offset |-> <<0, 0, 0>>, radius |-> 0, feed_rate |-> 0,
     inverse_feed_rate_mode |-> 0, spindle_speed |-> 0, spindle_mode |-> 0,
     tool |-> 0, change_tool |-> 0, dwell_time |-> 0, set_plane |-> 0,
     inches_mode |-> 0, absolute_mode |-> 0, absolute_override |-> 0,
     set_origin_mode |-> 0, program_flow |-> 0]

\* the parser variables gp before the first block (static storage)
GpInit == [letter |-> 0, value |-> 0, fraction |-> 0, status |-> TG_OK]

(* ----------------- _gc_read_double, _gc_next_statement ---------------- *)

\* returns whether a number was read, with gp and the cursor i afterwards
gc_read_double(buf, i, gp) ==
    LET r == strtod(buf, i)
    IN  IF r.end = i
        THEN [found |-> FALSE, i |-> i,
              gp |-> [gp EXCEPT !.value = r.value, !.status = TG_BAD_NUMBER_FORMAT]]
        ELSE [found |-> TRUE, i |-> r.end % 256,
              gp |-> [gp EXCEPT !.value = r.value]]

gc_next_statement(buf, i, gp) ==
    IF At(buf, i) = 0 THEN [found |-> FALSE, i |-> i, gp |-> gp]
    ELSE LET g1 == [gp EXCEPT !.letter = At(buf, i)]
         IN  IF ~isupper(g1.letter)
             THEN [found |-> FALSE, i |-> i,
                   gp |-> [g1 EXCEPT !.status = TG_EXPECTED_COMMAND_LETTER]]
             ELSE LET r == gc_read_double(buf, (i + 1) % 256, g1)
                  IN  IF ~r.found THEN r
                      ELSE [found |-> TRUE, i |-> r.i,
                            gp |-> [r.gp EXCEPT
                                      !.fraction = r.gp.value - trunc(r.gp.value)]]

(* ---------------------- _gc_parse_gcode_block ------------------------- *)

\* The parse state s is [gn, gf, gp].  The macros of gcode.c:76-78:
SET_NEXT_STATE(s, a, v) == [s EXCEPT !.gn[a] = v, !.gf[a] = 1]

SET_NEXT_STATE_AXIS(s, a, axis, v) ==
    [s EXCEPT !.gn[a][axis + 1] = v, !.gf[a][axis + 1] = 1]

\* the macro without its gn.next_action=NEXT_ACTION_MOTION
SET_NEXT_ACTION_MOTION_KeepsAction(s, a, v) ==
    [s EXCEPT !.gn[a] = v, !.gf[a] = 1, !.gf.next_action = 1]

\* the macro without its gf.next_action=1
SET_NEXT_ACTION_MOTION_NoActionFlag(s, a, v) ==
    [s EXCEPT !.gn[a] = v, !.gf[a] = 1, !.gn.next_action = NEXT_ACTION_MOTION]

SET_NEXT_ACTION_MOTION(s, a, v) ==
    [s EXCEPT !.gn[a] = v, !.gf[a] = 1,
              !.gn.next_action = NEXT_ACTION_MOTION, !.gf.next_action = 1]

Unsupported(s) == [s EXCEPT !.gp.status = TG_UNSUPPORTED_STATEMENT]

\* case 'G' with G92 made a next action, like G4 and G28
AccumulateG_G92SetsAction(s) ==
    LET n == IntCast(s.gp.value)
    IN  CASE n = 0  -> SET_NEXT_ACTION_MOTION(s, "motion_mode", MOTION_MODE_STRAIGHT_TRAVERSE)
          [] n = 1  -> SET_NEXT_ACTION_MOTION(s, "motion_mode", MOTION_MODE_STRAIGHT_FEED)
          [] n = 2  -> SET_NEXT_ACTION_MOTION(s, "motion_mode", MOTION_MODE_CW_ARC)
          [] n = 3  -> SET_NEXT_ACTION_MOTION(s, "motion_mode", MOTION_MODE_CCW_ARC)
          [] n = 4  -> SET_NEXT_STATE(s, "next_action", NEXT_ACTION_DWELL)
          [] n = 17 -> SET_NEXT_STATE(s, "set_plane", CANON_PLANE_XY)
          [] n = 18 -> SET_NEXT_STATE(s, "set_plane", CANON_PLANE_XZ)
          [] n = 19 -> SET_NEXT_STATE(s, "set_plane", CANON_PLANE_YZ)
          [] n = 20 -> SET_NEXT_STATE(s, "inches_mode", 1)
          [] n = 21 -> SET_NEXT_STATE(s, "inches_mode", 0)
          [] n = 28 -> SET_NEXT_STATE(s, "next_action", NEXT_ACTION_GO_HOME)
          [] n = 30 -> SET_NEXT_STATE(s, "next_action", NEXT_ACTION_GO_HOME)
          [] n = 53 -> SET_NEXT_STATE(s, "absolute_override", 1)
          [] n = 80 -> SET_NEXT_STATE(s, "motion_mode", MOTION_MODE_CANCEL_MOTION_MODE)
          [] n = 90 -> SET_NEXT_STATE(s, "absolute_mode", 1)
          [] n = 91 -> SET_NEXT_STATE(s, "absolute_mode", 0)
          [] n = 92 -> SET_NEXT_STATE(s, "next_action", NEXT_ACTION_OFFSET_COORDINATES)
          [] n = 93 -> SET_NEXT_STATE(s, "inverse_feed_rate_mode", 1)
          [] n = 94 -> SET_NEXT_STATE(s, "inverse_feed_rate_mode", 0)
          [] n \in {40, 49, 61} -> s
          [] OTHER -> Unsupported(s)

\* case 'G' of the switch on gp.letter
AccumulateG(s) ==
    LET n == IntCast(s.gp.value)
    IN  CASE n = 0  -> SET_NEXT_ACTION_MOTION(s, "motion_mode", MOTION_MODE_STRAIGHT_TRAVERSE)
          [] n = 1  -> SET_NEXT_ACTION_MOTION(s, "motion_mode", MOTION_MODE_STRAIGHT_FEED)
          [] n = 2  -> SET_NEXT_ACTION_MOTION(s, "motion_mode", MOTION_MODE_CW_ARC)
          [] n = 3  -> SET_NEXT_ACTION_MOTION(s, "motion_mode", MOTION_MODE_CCW_ARC)
          [] n = 4  -> SET_NEXT_STATE(s, "next_action", NEXT_ACTION_DWELL)
          [] n = 17 -> SET_NEXT_STATE(s, "set_plane", CANON_PLANE_XY)
          [] n = 18 -> SET_NEXT_STATE(s, "set_plane", CANON_PLANE_XZ)
          [] n = 19 -> SET_NEXT_STATE(s, "set_plane", CANON_PLANE_YZ)
          [] n = 20 -> SET_NEXT_STATE(s, "inches_mode", 1)
          [] n = 21 -> SET_NEXT_STATE(s, "inches_mode", 0)
          [] n = 28 -> SET_NEXT_STATE(s, "next_action", NEXT_ACTION_GO_HOME)
          [] n = 30 -> SET_NEXT_STATE(s, "next_action", NEXT_ACTION_GO_HOME)
          [] n = 53 -> SET_NEXT_STATE(s, "absolute_override", 1)
          [] n = 80 -> SET_NEXT_STATE(s, "motion_mode", MOTION_MODE_CANCEL_MOTION_MODE)
          [] n = 90 -> SET_NEXT_STATE(s, "absolute_mode", 1)
          [] n = 91 -> SET_NEXT_STATE(s, "absolute_mode", 0)
          [] n = 92 -> SET_NEXT_STATE(s, "set_origin_mode", 1)
          [] n = 93 -> SET_NEXT_STATE(s, "inverse_feed_rate_mode", 1)
          [] n = 94 -> SET_NEXT_STATE(s, "inverse_feed_rate_mode", 0)
          [] n \in {40, 49, 61} -> s
          [] OTHER -> Unsupported(s)

\* case 'M'
AccumulateM(s) ==
    LET n == IntCast(s.gp.value)
    IN  CASE n \in {0, 1} -> SET_NEXT_STATE(s, "program_flow", PROGRAM_FLOW_STOP)
          [] n \in {2, 30, 60} -> SET_NEXT_STATE(s, "program_flow", PROGRAM_FLOW_END)
          [] n = 3 -> SET_NEXT_STATE(s, "spindle_mode", SPINDLE_CW)
          [] n = 4 -> SET_NEXT_STATE(s, "spindle_mode", SPINDLE_CCW)
          [] n = 5 -> SET_NEXT_STATE(s, "spindle_mode", SPINDLE_OFF)
          [] n = 6 -> SET_NEXT_STATE(s, "change_tool", 1)
          [] n \in {7, 8, 9, 48, 49} -> s
          [] OTHER -> Unsupported(s)

\* the body of the while loop, gcode.c:273-334, on the statement held in gp
Accumulate(s) ==
    LET c == s.gp.letter
        v == s.gp.value
    IN  CASE c = Ord("G") -> AccumulateG(s)
          [] c = Ord("M") -> AccumulateM(s)
          [] c = Ord("T") -> SET_NEXT_STATE(s, "tool", IntCast(v))
          [] c = Ord("F") -> SET_NEXT_STATE(s, "feed_rate", v)
          [] c = Ord("P") -> SET_NEXT_STATE(s, "dwell_time", v)
          [] c = Ord("S") -> SET_NEXT_STATE(s, "spindle_speed", v)
          [] c = Ord("X") -> SET_NEXT_STATE_AXIS(s, "target", X, v)
          [] c = Ord("Y") -> SET_NEXT_STATE_AXIS(s, "target", Y, v)
          [] c = Ord("Z") -> SET_NEXT_STATE_AXIS(s, "target", Z, v)
          [] c = Ord("I") -> SET_NEXT_STATE_AXIS(s, "offset", 0, v)
          [] c = Ord("J") -> SET_NEXT_STATE_AXIS(s, "offset", 1, v)
          [] c = Ord("K") -> SET_NEXT_STATE_AXIS(s, "offset", 2, v)
          [] c = Ord("R") -> SET_NEXT_STATE(s, "radius", v)
          [] c = Ord("N") -> s
          [] OTHER -> Unsupported(s)

\* the while loop of gcode.c:272-338 from cursor i on
RECURSIVE ParseLoop(_, _, _)

\* gcode.c:335-337: if (gp.status) break;
ParseContinue(buf, i, a) == IF a.gp.status # TG_OK THEN a ELSE ParseLoop(buf, i, a)

\* one pass of the loop on the result t of _gc_next_statement
ParsePass(buf, t, s) ==
    IF ~t.found THEN [s EXCEPT !.gp = t.gp]
    ELSE ParseContinue(buf, t.i, Accumulate([s EXCEPT !.gp = t.gp]))

ParseLoop(buf, i, s) == ParsePass(buf, gc_next_statement(buf, i, s.gp), s)

\* the initialization without the preset of gn from the persistent state
ParseStart_NoPreset(gm, gp) ==
    [gn |-> ZERO_MODEL_STATE, gf |-> ZERO_MODEL_STATE,
     gp |-> [gp EXCEPT !.status = TG_OK]]

\* gcode.c:257-268: gn and gf zeroed, gn preset from the persistent state gm
\* (cm_get_next_action, cm_get_motion_mode, cm_get_position), status reset
ParseStart(gm, gp) ==
    [gn |-> [ZERO_MODEL_STATE EXCEPT !.next_action = gm.next_action,
                                     !.motion_mode = gm.motion_mode,
                                     !.target = gm.position],
     gf |-> ZERO_MODEL_STATE,
     gp |-> [gp EXCEPT !.status = TG_OK]]

\* the parse of a block up to the call of _gc_execute_gcode_block
ParseStatements(buf, gm, gp) == ParseLoop(buf, 0, ParseStart(gm, gp))

(* ------------------------ the canonical machine ----------------------- *)

\* The cm_* functions are external.  What one call of the entry point sees of
\* them is the status each returns: o.fail names the function that reports
\* the status o.err, every other function returns TG_OK.
CmFuncs ==
    {"cm_set_inverse_feed_rate_mode", "cm_set_feed_rate", "cm_set_spindle_speed",
     "cm_select_tool", "cm_change_tool", "cm_start_spindle_clockwise",
     "cm_start_spindle_counterclockwise", "cm_stop_spindle_turning", "cm_dwell",
     "cm_select_plane", "cm_use_length_units", "cm_set_distance_mode",
     "cm_return_to_home", "cm_set_origin_offsets", "cm_straight_traverse",
     "cm_straight_feed", "cm_arc_feed"}

CmErrors == {TG_UNSUPPORTED_STATEMENT, "TG_CM_DOMAIN_ERROR"}

NoFail == [fail |-> "none", err |-> TG_OK]

CmStatus(o, f) == IF o.fail = f THEN o.err ELSE TG_OK

\* the persistent state gm after cm_init_canon
GmInit ==
    [next_action |-> NEXT_ACTION_NONE,
     motion_mode |-> MOTION_MODE_STRAIGHT_TRAVERSE,
     position |-> <<0, 0, 0>>]

\* the effect of one call on the part of gm the parser reads back: a motion
\* primitive that succeeds leaves its motion mode, next action MOTION and the
\* target as the new position
CmEffect(gm, call) ==
    IF call.status # TG_OK THEN gm
    ELSE CASE call.f = "cm_straight_traverse" ->
                [next_action |-> NEXT_ACTION_MOTION,
                 motion_mode |-> MOTION_MODE_STRAIGHT_TRAVERSE,
                 position |-> call.args]
           [] call.f = "cm_straight_feed" ->
                [next_action |-> NEXT_ACTION_MOTION,
                 motion_mode |-> MOTION_MODE_STRAIGHT_FEED,
                 position |-> call.args]
           [] call.f = "cm_arc_feed" ->
                [next_action |-> NEXT_ACTION_MOTION,
                 motion_mode |-> call.args[8],
                 position |-> <<call.args[1], call.args[2], call.args[3]>>]
           [] OTHER -> gm

RECURSIVE CmEffects(_, _)
CmEffects(gm, calls) ==
    IF calls = <<>> THEN gm
    ELSE CmEffects(CmEffect(gm, Head(calls)), Tail(calls))

(* ---------------------- _gc_execute_gcode_block ----------------------- *)

\* The execution state e is [calls, status, done]: the calls made so far with
\* the status each returned, gp.status, and whether the function has returned.

\* status = f(args), as in CALL_CM_FUNC and the action steps
CallCm(e, o, f, args) ==
    LET st == CmStatus(o, f)
    IN  [e EXCEPT !.calls = Append(@, [f |-> f, args |-> args, status |-> st]),
                  !.status = st]

\* a call whose return value is dropped (gcode.c:398-402)
CallCmIgnored(e, o, f, args) ==
    [e EXCEPT !.calls = Append(@, [f |-> f, args |-> args, status |-> CmStatus(o, f)])]

ReturnIfError_Continue(e) == e

ReturnIfError(e) == IF e.status # TG_OK THEN [e EXCEPT !.done = TRUE] ELSE e

\* #define CALL_CM_FUNC(f,v) if(gf.v) {if((gp.status = f(gn.v))) {return(gp.status);}}
CALL_CM_FUNC(e, gn, gf, o, f, v) ==
    IF gf[v] # 0 THEN ReturnIfError(CallCm(e, o, f, <<gn[v]>>)) ELSE e

\* gcode.c:396-404
SpindleStep(e, gn, gf, o) ==
    IF gf.spindle_mode # 0
    THEN IF gn.spindle_mode = SPINDLE_CW
            THEN CallCmIgnored(e, o, "cm_start_spindle_clockwise", <<>>)
         ELSE IF gn.spindle_mode = SPINDLE_CCW
            THEN CallCmIgnored(e, o, "cm_start_spindle_counterclockwise", <<>>)
         ELSE CallCmIgnored(e, o, "cm_stop_spindle_turning", <<>>)
    ELSE e

\* if (cond) { if ((gp.status = f(args))) return (gp.status); }
ActionStep(e, o, cond, f, args) ==
    IF cond THEN ReturnIfError(CallCm(e, o, f, args)) ELSE e

\* the call and return without the if around them
MotionStep_Always(e, o, cond, f, args) ==
    [CallCm(e, o, f, args) EXCEPT !.done = TRUE]

\* if (cond) { gp.status = f(args); return (gp.status); }
MotionStep(e, o, cond, f, args) ==
    IF cond THEN [CallCm(e, o, f, args) EXCEPT !.done = TRUE] ELSE e

\* the body with the spindle step moved ahead of the feed rate
ExecSteps_SpindleFirst ==
    <<"inverse_feed_rate_mode", "spindle", "feed_rate", "spindle_speed",
      "select_tool", "change_tool", "dwell", "set_plane", "inches_mode",
      "absolute_mode", "go_home", "origin_offsets", "traverse", "feed", "arc">>

\* the body with the arc branch ahead of the plane, units and distance steps
ExecSteps_ArcEarly ==
    <<"inverse_feed_rate_mode", "feed_rate", "spindle_speed", "select_tool",
      "change_tool", "spindle", "dwell", "arc", "set_plane", "inches_mode",
      "absolute_mode", "go_home", "origin_offsets", "traverse", "feed">>

\* the statements of the function body, in program order
ExecSteps ==
    <<"inverse_feed_rate_mode", "feed_rate", "spindle_speed", "select_tool",
      "change_tool", "spindle", "dwell", "set_plane", "inches_mode",
      "absolute_mode", "go_home", "origin_offsets", "traverse", "feed", "arc">>

ExecStep(id, e, gn, gf, o) ==
    CASE id = "inverse_feed_rate_mode" ->
            CALL_CM_FUNC(e, gn, gf, o, "cm_set_inverse_feed_rate_mode", "inverse_feed_rate_mode")
      [] id = "feed_rate" -> CALL_CM_FUNC(e, gn, gf, o, "cm_set_feed_rate", "feed_rate")
      [] id = "spindle_speed" -> CALL_CM_FUNC(e, gn, gf, o, "cm_set_spindle_speed", "spindle_speed")
      [] id = "select_tool" -> CALL_CM_FUNC(e, gn, gf, o, "cm_select_tool", "tool")
      [] id = "change_tool" -> CALL_CM_FUNC(e, gn, gf, o, "cm_change_tool", "tool")
      [] id = "spindle" -> SpindleStep(e, gn, gf, o)
      [] id = "dwell" ->
            ActionStep(e, o, gn.next_action = NEXT_ACTION_DWELL, "cm_dwell", <<gn.dwell_time>>)
      [] id = "set_plane" -> CALL_CM_FUNC(e, gn, gf, o, "cm_select_plane", "set_plane")
      [] id = "inches_mode" -> CALL_CM_FUNC(e, gn, gf, o, "cm_use_length_units", "inches_mode")
      [] id = "absolute_mode" -> CALL_CM_FUNC(e, gn, gf, o, "cm_set_distance_mode", "absolute_mode")
      [] id = "go_home" ->
            ActionStep(e, o, gn.next_action = NEXT_ACTION_GO_HOME, "cm_return_to_home", <<>>)
      [] id = "origin_offsets" ->
            ActionStep(e, o, gn.next_action = NEXT_ACTION_OFFSET_COORDINATES,
                       "cm_set_origin_offsets", gn.target)
      [] id = "traverse" ->
            MotionStep(e, o, gn.next_action = NEXT_ACTION_MOTION
                             /\ gn.motion_mode = MOTION_MODE_STRAIGHT_TRAVERSE,
                       "cm_straight_traverse", gn.target)
      [] id = "feed" ->
            MotionStep(e, o, gn.next_action = NEXT_ACTION_MOTION
                             /\ gn.motion_mode = MOTION_MODE_STRAIGHT_FEED,
                       "cm_straight_feed", gn.target)
      [] id = "arc" ->
            MotionStep(e, o, gn.next_action = NEXT_ACTION_MOTION
                             /\ gn.motion_mode \in {MOTION_MODE_CW_ARC, MOTION_MODE_CCW_ARC},
                       "cm_arc_feed", gn.target \o gn.offset \o <<gn.radius, gn.motion_mode>>)

RECURSIVE ExecFrom(_, _, _, _, _)
ExecFrom(k, e, gn, gf, o) ==
    IF k > Len(ExecSteps) \/ e.done THEN e
    ELSE ExecFrom(k + 1, ExecStep(ExecSteps[k], e, gn, gf, o), gn, gf, o)

\* _gc_execute_gcode_block() entered with gp.status = status; the final
\* return(gp.status) returns whatever the last assignment left
Execute(gn, gf, status, o) ==
    ExecFrom(1, [calls |-> <<>>, status |-> status, done |-> FALSE], gn, gf, o)

(* --------------------------- gc_gcode_parser -------------------------- *)

\* gcode.c:98 and gcode.c:101
IsEmptyBlock(b) == At(b, 0) = 0

IsQuit_WholeCommand(b) == CStr(b) = <<Ord("Q")>>

IsQuit(b) == At(b, 0) = Ord("Q")

\* gcode.c:98-103 on the normalized block nb: the two early returns, else
\* the parse s of the block
ParseParsed(nb, s) ==
    [parsed |-> TRUE, block |-> nb.block, msgs |-> nb.msgs,
     gn |-> s.gn, gf |-> s.gf, gp |-> s.gp, ret |-> s.gp.status]

\* the function with a parse that starts from the flags the last block left
\* (no ZERO_MODEL_STATE(&gf))
ParseNormalized_KeepFlags(nb, gn, gf, gp, gm) ==
    IF IsEmptyBlock(nb.block) \/ IsQuit(nb.block)
    THEN [parsed |-> FALSE, block |-> nb.block, msgs |-> nb.msgs,
          gn |-> gn, gf |-> gf, gp |-> gp,
          ret |-> IF IsEmptyBlock(nb.block) THEN TG_OK ELSE TG_QUIT]
    ELSE ParseParsed(nb, ParseLoop(nb.block, 0,
                                   [ParseStart(gm, gp) EXCEPT !.gf = gf]))

ParseNormalized(nb, gn, gf, gp, gm) ==
    IF IsEmptyBlock(nb.block) \/ IsQuit(nb.block)
    THEN [parsed |-> FALSE, block |-> nb.block, msgs |-> nb.msgs,
          gn |-> gn, gf |-> gf, gp |-> gp,
          ret |-> IF IsEmptyBlock(nb.block) THEN TG_OK ELSE TG_QUIT]
    ELSE ParseParsed(nb, ParseStatements(nb.block, gm, gp))

\* gc_gcode_parser on the text line (no NUL in it) up to the point where it
\* returns early (parsed = FALSE) or _gc_parse_gcode_block has left its loop
\* and is about to call _gc_execute_gcode_block (gcode.c:339)
ParsePhase(line, gn, gf, gp, gm) ==
    ParseNormalized(NormalizeBlock(line \o <<0>>), gn, gf, gp, gm)

\* the rest of the call, with the cm functions returning as o says:
\* return (_gc_execute_gcode_block()), tg_print_status on a non-zero
\* result (console output only), return (gp.status)
ExecPhase(p, gm, o) ==
    IF ~p.parsed
    THEN [block |-> p.block, msgs |-> p.msgs, gm |-> gm, gn |-> p.gn, gf |-> p.gf,
          gp |-> p.gp, calls |-> <<>>, ret |-> p.ret]
    ELSE LET e == Execute(p.gn, p.gf, p.gp.status, o)
         IN  [block |-> p.block, msgs |-> p.msgs, gm |-> CmEffects(gm, e.calls),
              gn |-> p.gn, gf |-> p.gf, gp |-> [p.gp EXCEPT !.status = e.status],
              calls |-> e.calls, ret |-> e.status]

\* one whole call of the entry point
GcodeParser(line, gm, gn, gf, gp, o) ==
    ExecPhase(ParsePhase(line, gn, gf, gp, gm), gm, o)

(* ------------------ temperature controller: tinyg_tc.c ---------------- *)

SC_OK == "SC_OK"
SC_NOOP == "SC_NOOP"
SC_INVALID_ADDRESS == "SC_INVALID_ADDRESS"

\* struct DeviceSingleton dev after rtc_init(): the flag is still the zero of
\* static storage
DevInit == [rtc_flag |-> FALSE, rtc_100ms_count |-> 10, rtc_1sec_count |-> 10]

\* --x on a uint8_t
PreDecrement(x) == (x - 1) % 256

\* the rest of the handler without the reload of the 100 ms counter
RtcRun_NoReload(d) ==
    IF PreDecrement(d.rtc_100ms_count) # 0
    THEN [dev |-> [d EXCEPT !.rtc_flag = FALSE,
                            !.rtc_100ms_count = PreDecrement(d.rtc_100ms_count)],
          ran |-> <<"rtc_10ms">>, ret |-> SC_OK]
    ELSE IF PreDecrement(d.rtc_1sec_count) # 0
    THEN [dev |-> [d EXCEPT !.rtc_flag = FALSE, !.rtc_100ms_count = 0,
                            !.rtc_1sec_count = PreDecrement(d.rtc_1sec_count)],
          ran |-> <<"rtc_10ms", "rtc_100ms">>, ret |-> SC_OK]
    ELSE [dev |-> [d EXCEPT !.rtc_flag = FALSE, !.rtc_100ms_count = 0,
                            !.rtc_1sec_count = 10],
          ran |-> <<"rtc_10ms", "rtc_100ms", "rtc_1sec">>, ret |-> SC_OK]

\* rtc_callback from dev.rtc_flag = false on (tinyg_tc.c:238-250): the
\* struct afterwards, the tasks run in order and the status returned
RtcRun(d) ==
    IF PreDecrement(d.rtc_100ms_count) # 0
    THEN [dev |-> [d EXCEPT !.rtc_flag = FALSE,
                            !.rtc_100ms_count = PreDecrement(d.rtc_100ms_count)],
          ran |-> <<"rtc_10ms">>, ret |-> SC_OK]
    ELSE IF PreDecrement(d.rtc_1sec_count) # 0
    THEN [dev |-> [d EXCEPT !.rtc_flag = FALSE, !.rtc_100ms_count = 10,
                            !.rtc_1sec_count = PreDecrement(d.rtc_1sec_count)],
          ran |-> <<"rtc_10ms", "rtc_100ms">>, ret |-> SC_OK]
    ELSE [dev |-> [d EXCEPT !.rtc_flag = FALSE, !.rtc_100ms_count = 10,
                            !.rtc_1sec_count = 10],
          ran |-> <<"rtc_10ms", "rtc_100ms", "rtc_1sec">>, ret |-> SC_OK]

\* how many times task f is in the sequence ran
Ran(ran, f) == Cardinality({k \in DOMAIN ran : ran[k] = f})

\* the dispatch loop is outside the handler; no tick has fired, no task run
RtcIdle ==
    [pc |-> "idle", fired |-> 0, hits |-> 0, rtc_10ms |-> 0, rtc_100ms |-> 0,
     rtc_1sec |-> 0, ret |-> SC_NOOP]

\* KINEN_COMMON_MAX and DEVICE_ADDRESS_MAX come from kinen_core.h and
\* tinyg_tc.h: a register file behind the common registers, one that starts
\* at address 0, and one whose addresses wrap around past 255
KinenConfigs ==
    {[common_max |-> 16, address_max |-> 2], [common_max |-> 0, address_max |-> 1],
     [common_max |-> 255, address_max |-> 2]}

\* the bytes written and the byte the caller's variable holds at first
Bytes == {0, 255}

\* addr -= KINEN_COMMON_MAX without the conversion back to uint8_t
DeviceOffset_NoWrap(addr, k) == addr - k.common_max

\* addr -= KINEN_COMMON_MAX on a uint8_t (tinyg_tc.c:315, 322)
DeviceOffset(addr, k) == (addr - k.common_max) % 256

\* addr >= DEVICE_ADDRESS_MAX fails
DeviceAddressed(addr, k) == ~(DeviceOffset(addr, k) >= k.address_max)

\* the values device_array[x] can yield: the element, or whatever lies
\* outside the array
DeviceLoad(a, x) == IF x \in 0..(Len(a) - 1) THEN {At(a, x)} ELSE Bytes

\* device_array[x] = data; a store outside the array leaves the array alone
DeviceStore(a, x, data) == IF x \in 0..(Len(a) - 1) THEN Put(a, x, data) ELSE a

\* static uint8_t device_array[DEVICE_ADDRESS_MAX], zeroed
DeviceArrayInit(k) == [x \in 1..k.address_max |-> 0]

\* device_read_byte(addr, &o) with the registers a: the status, the caller's
\* byte afterwards and the index of the array accessed (-1 for none)
DeviceRead(addr, k, a, o) ==
    IF ~DeviceAddressed(addr, k)
    THEN {[ret |-> SC_INVALID_ADDRESS, out |-> o, index |-> -1]}
    ELSE {[ret |-> SC_OK, out |-> v, index |-> DeviceOffset(addr, k)] :
              v \in DeviceLoad(a, DeviceOffset(addr, k))}

\* device_write_byte(addr, data): the status, the registers afterwards and
\* the index accessed
DeviceWrite(addr, data, k, a) ==
    IF ~DeviceAddressed(addr, k)
    THEN [ret |-> SC_INVALID_ADDRESS, array |-> a, index |-> -1]
    ELSE [ret |-> SC_OK, array |-> DeviceStore(a, DeviceOffset(addr, k), data),
          index |-> DeviceOffset(addr, k)]

\* no register has been accessed yet
NoAccess == [op |-> "none", addr |-> 0, data |-> 0, ret |-> SC_OK, index |-> -1]

(* ------------------------------ the state ----------------------------- *)

VARIABLES
    line,    \* the text the caller has received for the next block
    rx,      \* the input units that make up line
    nrx,     \* input units received so far
    block,   \* the line buffer as the last call left it
    msgs,    \* the messages the last call handed to cm_message
    gm,      \* persistent machine state (canonical machine)
    gn, gf,  \* next state and changed flags (static, gcode.c:65-66)
    gp,      \* parser variables (static, gcode.c:63)
    calls,   \* the canonical-machine calls of the last call, in order
    ret,     \* what the last call returned
    input,   \* the line and its units as handed to the last call
    gm0,     \* gm when the last call began
    cmret,   \* how the cm functions answered in the last call
    nz,      \* the position in _gc_normalize_gcode_block run pass by pass
    dev,     \* struct DeviceSingleton dev (static, tinyg_tc.c:33-38)
    rtc,     \* the position in rtc_callback; ticks fired and tasks run so far
    kinen,   \* the values of KINEN_COMMON_MAX and DEVICE_ADDRESS_MAX
    device_array,  \* static uint8_t device_array[] (tinyg_tc.c:40)
    out,     \* the caller's byte that device_read_byte writes through *data
    acc      \* the last register access and what it returned

\* the state of the G-code parser
gcVars == <<line, rx, nrx, block, msgs, gm, gn, gf, gp, calls, ret, input, gm0, cmret, nz>>

\* ticks of the real-time clock in a run
MaxTicks == 200

\* the state of the temperature controller
tcVars == <<dev, rtc, kinen, device_array, out, acc>>

vars == <<line, rx, nrx, block, msgs, gm, gn, gf, gp, calls, ret, input, gm0, cmret,
          nz, dev, rtc, kinen, device_array, out, acc>>

\* the temperature controller after device_init()
ControllerInit ==
    /\ dev = DevInit
    /\ rtc = RtcIdle
    /\ kinen = [common_max |-> 16, address_max |-> 2]
    /\ device_array = DeviceArrayInit(kinen)
    /\ out = 0
    /\ acc = NoAccess

Init ==
    /\ line = <<>>
    /\ rx = <<>>
    /\ nrx = 0
    /\ block = <<0>>
    /\ msgs = <<>>
    /\ gm = GmInit
    /\ gn = ZERO_MODEL_STATE
    /\ gf = ZERO_MODEL_STATE
    /\ gp = GpInit
    /\ calls = <<>>
    /\ ret = TG_OK
    /\ input = [line |-> <<>>, rx |-> <<>>]
    /\ gm0 = GmInit
    /\ cmret = NoFail
    /\ nz = NzIdle
    /\ ControllerInit

\* statements of a block: a motion (G1), a dwell (G4), flagged setters
\* (F, T, M3, M6) and one the dispatch table does not hold (G500)
Statements ==
    {Str(<<"G", "1">>), Str(<<"G", "4">>), Str(<<"F", "1", "0", "0">>),
     Str(<<"M", "3">>), Str(<<"M", "6">>), Str(<<"T", "2">>),
     Str(<<"G", "5", "0", "0">>)}

\* pieces of lines with comments, block deletes and discarded characters
Chunks ==
    {Str(<<"/">>), Str(<<"(", "M", "S", "G">>), Str(<<"(", "m", "S", "g">>),
     Str(<<"(">>), Str(<<"M">>), Str(<<"S">>), Str(<<"h", "i">>),
     Str(<<")">>), Str(<<" ">>), Str(<<"G", "1">>)}

\* one representative of each class of character the normalizer tells apart
Alphabet ==
    {Ord("G"), Ord("Q"), Ord("q"), Ord("1"), Ord(" "), Ord("DEL"), Ord("%"),
     Ord("/"), Ord("&"), Ord("(")}

Rx(u) ==
    /\ nrx < MaxRx
    /\ line' = line \o u
    /\ rx' = Append(rx, u)
    /\ nrx' = nrx + 1
    /\ UNCHANGED <<block, msgs, gm, gn, gf, gp, calls, ret, input, gm0, cmret, nz>>
    /\ UNCHANGED tcVars

\* the caller receives one more statement of the line
RxStatement == \E u \in Statements : Rx(u)

\* the caller receives one more character of the line
RxChar == \E c \in Alphabet : Rx(<<c>>)

\* the caller receives one more piece of a line
RxChunk == \E u \in Chunks : Rx(u)

\* The answers of the cm functions that the call can tell apart: a failure of
\* a function the call never reaches is the same as no failure.
CmReturnsFor(p, m) ==
    LET r == ExecPhase(p, m, NoFail)
    IN  {NoFail} \cup [fail : {r.calls[k].f : k \in 1..Len(r.calls)}, err : CmErrors]

\* the call returns: what it leaves behind, r, with the cm functions
\* having returned as o says
ParserReturn(r, o) ==
    /\ block' = r.block
    /\ msgs' = r.msgs
    /\ gm' = r.gm
    /\ gn' = r.gn
    /\ gf' = r.gf
    /\ gp' = r.gp
    /\ calls' = r.calls
    /\ ret' = r.ret
    /\ input' = [line |-> line, rx |-> rx]
    /\ gm0' = gm
    /\ cmret' = o
    /\ line' = <<>>
    /\ rx' = <<>>
    /\ UNCHANGED <<nrx, nz>>
    /\ UNCHANGED tcVars

\* the call from the parse p on
ParserCall(p) ==
    \E o \in CmReturnsFor(p, gm) : ParserReturn(ExecPhase(p, gm, o), o)

\* the caller hands the line to the entry point
gc_gcode_parser == ParserCall(ParsePhase(line, gn, gf, gp, gm))

Next == RxStatement \/ gc_gcode_parser

Spec == Init /\ [][Next]_vars

NextChars == RxChar \/ gc_gcode_parser

SpecChars == Init /\ [][NextChars]_vars

NextComments == RxChunk \/ gc_gcode_parser

SpecComments == Init /\ [][NextComments]_vars

\* words of motion blocks: motions (G1, G2), the other next actions (G4,
\* G28), axis words, flagged setters (F, G17, T with a fraction), a line
\* number and an arc offset
Words ==
    {Str(<<"G", "1">>), Str(<<"G", "2">>), Str(<<"G", "4">>),
     Str(<<"G", "2", "8">>), Str(<<"X", "1", "0">>), Str(<<"Z", "5">>),
     Str(<<"F", "1", "0", "0">>), Str(<<"G", "1", "7">>),
     Str(<<"T", "2", ".", "5">>), Str(<<"N", "3">>), Str(<<"I", "1">>)}

\* the caller receives one more word of the line
RxWord == \E u \in Words : Rx(u)

NextMotion == RxWord \/ gc_gcode_parser

SpecMotion == Init /\ [][NextMotion]_vars

\* letter+number statements, among them one whose letter is E
LetterNumbers ==
    {Str(<<"G", "1">>), Str(<<"X", "1">>), Str(<<"E", "2">>),
     Str(<<"F", "1", "0", "0">>), Str(<<"T", "2", ".", "5">>), Str(<<"N", "3">>)}

\* the caller receives one more statement of the line
RxToken == \E u \in LetterNumbers : Rx(u)

NextTokens == RxToken \/ gc_gcode_parser

SpecTokens == Init /\ [][NextTokens]_vars

\* the persistent states a block may find: the one after cm_init_canon and
\* one whose next action is OFFSET_COORDINATES
MachineStates ==
    {GmInit, [GmInit EXCEPT !.next_action = NEXT_ACTION_OFFSET_COORDINATES]}

InitOffsets ==
    /\ line = <<>>
    /\ rx = <<>>
    /\ nrx = 0
    /\ block = <<0>>
    /\ msgs = <<>>
    /\ gm \in MachineStates
    /\ gn = ZERO_MODEL_STATE
    /\ gf = ZERO_MODEL_STATE
    /\ gp = GpInit
    /\ calls = <<>>
    /\ ret = TG_OK
    /\ input = [line |-> <<>>, rx |-> <<>>]
    /\ gm0 = gm
    /\ cmret = NoFail
    /\ nz = NzIdle
    /\ ControllerInit

\* words of blocks about origin offsets: G92, the codes that assign next
\* action (G1, G4, G28) and an axis word
OffsetWords ==
    {Str(<<"G", "9", "2">>), Str(<<"G", "1">>), Str(<<"G", "4">>),
     Str(<<"G", "2", "8">>), Str(<<"X", "1", "0">>)}

\* the caller receives one more word of the line
RxOffsetWord == \E u \in OffsetWords : Rx(u)

NextOffsets == RxOffsetWord \/ gc_gcode_parser

SpecOffsets == InitOffsets /\ [][NextOffsets]_vars

\* a run of letters two characters short of the longest line
LongRun == [k \in 1..(MaxLine - 2) |-> Ord("G")]

\* pieces of long lines: the run, a kept and a tossed character, a block
\* delete, comments with and without message
LongChunks ==
    {LongRun, Str(<<"G">>), Str(<<" ">>), Str(<<"/">>), Str(<<"(">>),
     Str(<<"(", "M", "S", "G">>), Str(<<")">>)}

\* the caller receives one more piece of a line of at most MaxLine characters
RxLongChunk ==
    \E u \in LongChunks : nz.pc = "idle" /\ Len(line) + Len(u) <= MaxLine /\ Rx(u)

\* a step of the normalizer run alone on the caller's buffer: t holds the
\* buffer and the position after the step; the parser state is left alone
NormalizeStep(t) ==
    /\ block' = t.block
    /\ nz' = t.nz
    /\ UNCHANGED <<nrx, gm, gn, gf, gp, calls, ret, gm0, cmret>>
    /\ UNCHANGED tcVars

\* the caller hands its line to the normalizer (gcode.c:146-157)
NormalizeEnter ==
    /\ nz.pc = "idle"
    /\ NormalizeStep(NormalizeEntered(line \o <<0>>))
    /\ input' = [line |-> line, rx |-> rx]
    /\ line' = <<>>
    /\ rx' = <<>>
    /\ msgs' = <<>>

\* one pass of the copy loop (gcode.c:159-174)
NormalizePass ==
    /\ nz.pc = "loop"
    /\ NormalizeStep(NormalizePassed(block, nz))
    /\ UNCHANGED <<line, rx, input, msgs>>

\* the copy loop has been left (gcode.c:175-188)
NormalizeLeave ==
    /\ nz.pc = "end"
    /\ NormalizeStep(NormalizeLeft(block, nz))
    /\ msgs' = NormalizeLeft(block, nz).msgs
    /\ UNCHANGED <<line, rx, input>>

NextLong == RxLongChunk \/ NormalizeEnter \/ NormalizePass \/ NormalizeLeave

SpecLong == Init /\ [][NextLong]_vars

(* ----------------- temperature controller: the clock ------------------ *)

\* the timer overflows: the interrupt routine sets the flag
\* (tinyg_tc.c:229-233); it can come between any two steps of the main loop
TIMER0_OVF_vect ==
    /\ rtc.fired < MaxTicks
    /\ dev' = [dev EXCEPT !.rtc_flag = TRUE]
    /\ rtc' = [rtc EXCEPT !.fired = @ + 1]
    /\ UNCHANGED gcVars
    /\ UNCHANGED <<kinen, device_array, out, acc>>

\* the dispatch loop calls rtc_callback, which tests the flag
\* (tinyg_tc.c:237) and returns SC_NOOP if it is clear
rtc_callback_test ==
    /\ rtc.pc = "idle"
    /\ rtc' = IF dev.rtc_flag = FALSE
              THEN [rtc EXCEPT !.ret = SC_NOOP]
              ELSE [rtc EXCEPT !.pc = "set", !.hits = @ + 1]
    /\ UNCHANGED gcVars
    /\ UNCHANGED <<dev, kinen, device_array, out, acc>>

\* the handler found the flag set: it clears it and runs the tasks due
\* (tinyg_tc.c:238-250)
rtc_callback_run ==
    /\ rtc.pc = "set"
    /\ dev' = RtcRun(dev).dev
    /\ rtc' = [rtc EXCEPT !.pc = "idle", !.ret = RtcRun(dev).ret,
                          !.rtc_10ms = @ + Ran(RtcRun(dev).ran, "rtc_10ms"),
                          !.rtc_100ms = @ + Ran(RtcRun(dev).ran, "rtc_100ms"),
                          !.rtc_1sec = @ + Ran(RtcRun(dev).ran, "rtc_1sec")]
    /\ UNCHANGED gcVars
    /\ UNCHANGED <<kinen, device_array, out, acc>>

NextRtc == TIMER0_OVF_vect \/ rtc_callback_test \/ rtc_callback_run

SpecRtc == Init /\ [][NextRtc]_vars

(* --------------- temperature controller: the registers ---------------- *)

\* the controller with the register file of any of the configurations, and
\* any byte in the caller's variable
InitDevice ==
    /\ line = <<>>
    /\ rx = <<>>
    /\ nrx = 0
    /\ block = <<0>>
    /\ msgs = <<>>
    /\ gm = GmInit
    /\ gn = ZERO_MODEL_STATE
    /\ gf = ZERO_MODEL_STATE
    /\ gp = GpInit
    /\ calls = <<>>
    /\ ret = TG_OK
    /\ input = [line |-> <<>>, rx |-> <<>>]
    /\ gm0 = GmInit
    /\ cmret = NoFail
    /\ nz = NzIdle
    /\ dev = DevInit
    /\ rtc = RtcIdle
    /\ kinen \in KinenConfigs
    /\ device_array = DeviceArrayInit(kinen)
    /\ out \in Bytes
    /\ acc = NoAccess

\* an access returns r: the registers and the caller's byte are as it left
\* them
DeviceReturn(op, addr, data, r, a, o) ==
    /\ acc' = [op |-> op, addr |-> addr, data |-> data, ret |-> r.ret, index |-> r.index]
    /\ device_array' = a
    /\ out' = o
    /\ UNCHANGED gcVars
    /\ UNCHANGED <<dev, rtc, kinen>>

\* a Kinen driver reads a register into the caller's byte
device_read_byte ==
    \E addr \in 0..255 :
        \E r \in DeviceRead(addr, kinen, device_array, out) :
            DeviceReturn("read", addr, 0, r, device_array, r.out)

\* a Kinen driver writes a register
device_write_byte ==
    \E addr \in 0..255, data \in Bytes :
        DeviceReturn("write", addr, data, DeviceWrite(addr, data, kinen, device_array),
                     DeviceWrite(addr, data, kinen, device_array).array, out)

NextDevice == device_read_byte \/ device_write_byte

SpecDevice == InitDevice /\ [][NextDevice]_vars

(* ======================= properties of the parser ===================== *)

\* the last call went through _gc_parse_gcode_block
Parsed == ~IsEmptyBlock(block) /\ ~IsQuit(block)

\* the status the statement loop of the last call left in gp.status
ParseStatus == ParseStatements(block, gm0, gp).gp.status

ParseFailed == Parsed /\ ParseStatus # TG_OK

SpindleFuncs ==
    {"cm_start_spindle_clockwise", "cm_start_spindle_counterclockwise",
     "cm_stop_spindle_turning"}

MotionFuncs == {"cm_straight_traverse", "cm_straight_feed", "cm_arc_feed"}

CalledCm(f) == \E k \in 1..Len(calls) : calls[k].f = f

\* C1: if a statement of the block sets an error status during parsing, no
\* canonical-machine setter or action is called for that block.
C1_NoDispatchAfterParseError == ParseFailed => calls = <<>>

\* C2: whenever a statement of the block fails to parse, the entry point
\* returns the non-OK status of that first failing statement.
C2_ParseErrorReturned == ParseFailed => ret = ParseStatus

\* the place of each canonical-machine function in the documented order
StepRank(f) ==
    CASE f = "cm_set_inverse_feed_rate_mode" -> 1
      [] f = "cm_set_feed_rate" -> 2
      [] f = "cm_set_spindle_speed" -> 3
      [] f = "cm_select_tool" -> 4
      [] f = "cm_change_tool" -> 5
      [] f \in SpindleFuncs -> 6
      [] f = "cm_dwell" -> 7
      [] f = "cm_select_plane" -> 8
      [] f = "cm_use_length_units" -> 9
      [] f = "cm_set_distance_mode" -> 10
      [] f = "cm_return_to_home" -> 11
      [] f = "cm_set_origin_offsets" -> 12
      [] f \in MotionFuncs -> 13

CallsInFixedOrder ==
    \A i, j \in 1..Len(calls) : i < j => StepRank(calls[i].f) < StepRank(calls[j].f)

\* the fields a flag record marks as assigned
Flagged(f) ==
    {<<a, 0>> : a \in {b \in DOMAIN f \ {"target", "offset"} : f[b] # 0}}
    \cup {t \in {"target", "offset"} \X (1..3) : f[t[1]][t[2]] # 0}

\* what one statement alone does to the parse state
StatementAlone(u) == ParseStatements(u \o <<0>>, gm0, GpInit)

\* the statements all parse and no two of them assign the same field
AssignDistinctFields(us) ==
    /\ \A k \in 1..Len(us) : StatementAlone(us[k]).gp.status = TG_OK
    /\ \A i, j \in 1..Len(us) :
          i < j => Flagged(StatementAlone(us[i]).gf)
                      \cap Flagged(StatementAlone(us[j]).gf) = {}

Orderings(n) == {p \in [1..n -> 1..n] : \A i, j \in 1..n : p[i] = p[j] => i = j}

RECURSIVE Permuted(_, _, _)
Permuted(us, p, k) ==
    IF k > Len(us) THEN <<>> ELSE us[p[k]] \o Permuted(us, p, k + 1)

\* C3: the canonical-machine calls of a block occur in the fixed order
\* feed-rate mode, feed rate, spindle speed, tool select, tool change, spindle,
\* dwell, plane, units, distance mode, go-home, origin offsets, motion; and
\* every permutation of statements that assign distinct fields, run from the
\* same machine state with the same cm answers, gives the same calls.
C3_FixedDispatchOrder ==
    /\ CallsInFixedOrder
    /\ (line = <<>> /\ Parsed /\ AssignDistinctFields(input.rx)) =>
          \A p \in Orderings(Len(input.rx)) :
              GcodeParser(Permuted(input.rx, p, 1), gm0, gn, gf, gp, cmret).calls = calls

\* a block of three statements whose calls come in another order than the
\* statements: G1 first in the line, its motion last among the calls
C3_Witness ==
    /\ Parsed
    /\ Len(input.rx) = 3
    /\ AssignDistinctFields(input.rx)
    /\ input.rx[1] = Str(<<"G", "1">>)
    /\ Len(calls) = 3
    /\ calls[1].f = "cm_set_feed_rate"
    /\ calls[3].f = "cm_straight_feed"

\* C4: when a flag-gated setter, dwell, go-home, origin-offset or motion call
\* returns a non-OK status, it is the last call of the block, the entry point
\* returns exactly that status, and the calls made before it stand: each was
\* made once and none is repeated to compensate.
C4_DispatchAbortsOnFailure ==
    \A k \in 1..Len(calls) :
        (calls[k].status # TG_OK /\ calls[k].f \notin SpindleFuncs) =>
            /\ k = Len(calls)
            /\ ret = calls[k].status
            /\ gp.status = calls[k].status
            /\ \A i, j \in 1..k : i < j => calls[i].f # calls[j].f
            /\ \A i \in 1..(k - 1) : calls[i].status = TG_OK \/ calls[i].f \in SpindleFuncs

\* tool select fails after the feed rate was set, with a motion still pending
C4_Witness ==
    /\ Len(calls) = 2
    /\ calls[1].f = "cm_set_feed_rate" /\ calls[1].status = TG_OK
    /\ calls[2].f = "cm_select_tool" /\ calls[2].status # TG_OK
    /\ gn.next_action = NEXT_ACTION_MOTION
    /\ gf.next_action # 0

\* C5: if a spindle function reports a non-OK status, the remaining dispatch
\* steps of the block are not executed and that status is returned.
C5_SpindleFailureAborts ==
    \A k \in 1..Len(calls) :
        (calls[k].f \in SpindleFuncs /\ calls[k].status # TG_OK) =>
            k = Len(calls) /\ ret = calls[k].status

\* C6: tool change is called for a block exactly when the block's change-tool
\* flag is set (the block contains M6), in a block that parses and whose
\* canonical-machine calls all succeed.
C6_ToolChangeIffM6 ==
    (Parsed /\ ParseStatus = TG_OK /\ \A k \in 1..Len(calls) : calls[k].status = TG_OK) =>
        (CalledCm("cm_change_tool") <=> gf.change_tool # 0)

\* a step of gc_gcode_parser: the line the caller held becomes the input of
\* the last call
ParserStep == input' = [line |-> line, rx |-> rx] /\ line' = <<>>

\* C7 as stated: the entry point returns the quit status if and only if the
\* normalized command consists solely of the letter Q.
C7_QuitOnlyForBareQ == (ret = TG_QUIT) <=> (CStr(block) = <<Ord("Q")>>)

\* C7 as amended: the entry point returns the quit status if and only if the
\* normalized command begins with the letter Q, whatever follows it; in that
\* case no statement is parsed and no canonical-machine call is made.
C7_QuitIffLeadingQ ==
    [][ParserStep =>
          /\ (ret' = TG_QUIT) <=> (At(block', 0) = Ord("Q"))
          /\ At(block', 0) = Ord("Q") =>
                calls' = <<>> /\ UNCHANGED <<gm, gn, gf, gp>>]_vars

\* quit returned for a command that goes on after its leading Q
C7_Witness ==
    /\ ret = TG_QUIT
    /\ Len(CStr(block)) > 1
    /\ calls = <<>>

\* the characters the copy loop drops: controls and whitespace, DELETE and
\* the invalid punctuation
Discarded(c) == c <= 32 \/ c = 127 \/ c \in InvalidPunctuation

\* the text of a line before its first opening parenthesis
RECURSIVE BeforeComment(_)
BeforeComment(ln) ==
    IF ln = <<>> \/ Head(ln) = Ord("(") THEN <<>>
    ELSE <<Head(ln)>> \o BeforeComment(Tail(ln))

BlockDeleted(ln) == ln # <<>> /\ Head(ln) = Ord("/")

OnlyCommentOrDiscarded(ln) ==
    \A k \in 1..Len(BeforeComment(ln)) : Discarded(BeforeComment(ln)[k])

\* C8: a line that begins with '/', or consists only of a comment or of
\* discarded characters, has an empty normalized command; for every line whose
\* normalized command is empty the entry point returns OK, calls no
\* canonical-machine function and leaves gm, gn, gf and gp (the status of the
\* previous block included) as they were; a line beginning with '/' emits no
\* message.
C8_EmptyCommandHasNoEffect ==
    [][ParserStep =>
          /\ (BlockDeleted(line) \/ OnlyCommentOrDiscarded(line)) => At(block', 0) = 0
          /\ BlockDeleted(line) => msgs' = <<>>
          /\ At(block', 0) = 0 =>
                ret' = TG_OK /\ calls' = <<>> /\ UNCHANGED <<gm, gn, gf, gp>>]_vars

\* a deleted block with a message comment in it, handed over after a block
\* that left an error status
C8_Witness ==
    /\ BlockDeleted(input.line)
    /\ \E k \in 1..Len(input.line) : input.line[k] = Ord("(")
    /\ At(block, 0) = 0
    /\ msgs = <<>>
    /\ ret = TG_OK
    /\ gp.status # TG_OK

\* C9: normalizing the command string that a normalization produced yields
\* the same string.
C9_NormalizeIdempotent ==
    CStr(NormalizeBlock(CStr(block) \o <<0>>).block) = CStr(block)

\* the punctuation the normalizer is documented to pass on
PassedPunctuation ==
    {Ord("+"), Ord("-"), Ord("."), Ord("/"), Ord("*"), 60, 61, 62, 124,
     Ord("%"), Ord("#"), Ord("("), Ord(")"), 91, 93, 123, 125}

RECURSIVE IsSubsequence(_, _)
IsSubsequence(a, b) ==
    IF a = <<>> THEN TRUE
    ELSE IF b = <<>> THEN FALSE
    ELSE IF Head(a) = Head(b) THEN IsSubsequence(Tail(a), Tail(b))
    ELSE IsSubsequence(a, Tail(b))

UpperCased(ln) == [k \in 1..Len(ln) |-> toupper(ln[k])]

\* C10: every character of the normalized command is an uppercase letter, a
\* digit or a passed punctuation character; none is a lowercase letter, a
\* whitespace or control character, DELETE or discarded punctuation; and the
\* kept characters appear in their input order.
C10_CommandCharacters ==
    LET cmd == CStr(block)
    IN  /\ \A k \in 1..Len(cmd) :
              /\ isupper(cmd[k]) \/ isdigit(cmd[k]) \/ cmd[k] \in PassedPunctuation
              /\ cmd[k] \notin 97..122
              /\ ~Discarded(cmd[k])
        /\ IsSubsequence(cmd, UpperCased(input.line))

\* the text of a line after its first opening parenthesis
RECURSIVE AfterParen(_)
AfterParen(ln) ==
    IF ln = <<>> THEN <<>>
    ELSE IF Head(ln) = Ord("(") THEN Tail(ln)
    ELSE AfterParen(Tail(ln))

HasComment(ln) == \E k \in 1..Len(ln) : ln[k] = Ord("(")

\* the text up to, and without, its first closing parenthesis
RECURSIVE UpToParen(_)
UpToParen(t) ==
    IF t = <<>> \/ Head(t) = Ord(")") THEN <<>>
    ELSE <<Head(t)>> \o UpToParen(Tail(t))

\* the comment text starts with the letters M, S, G in any case
MsgPrefixed(t) ==
    /\ Len(t) >= 3
    /\ toupper(t[1]) = Ord("M")
    /\ toupper(t[2]) = Ord("S")
    /\ toupper(t[3]) = Ord("G")

MsgExpected(ln) == ~BlockDeleted(ln) /\ HasComment(ln) /\ MsgPrefixed(AfterParen(ln))

\* C11: a message is emitted for a line exactly when the line does not begin
\* with '/' and the text after its first '(' starts with M, S, G in any case;
\* the message is the comment text after those three letters up to, without,
\* the first ')' or up to the end of the line; at most one message is emitted
\* per line and comments without the prefix emit none.
C11_MessageIffMsgComment ==
    msgs = IF MsgExpected(input.line)
           THEN <<UpToParen(SubSeq(AfterParen(input.line), 4,
                                   Len(AfterParen(input.line))))>>
           ELSE <<>>

\* a mixed-case MSG comment closed by a parenthesis has emitted its text
C11_Witness ==
    /\ Len(input.line) = 7
    /\ input.line[2] = Ord("m")
    /\ input.line[7] = Ord(")")
    /\ msgs = <<Str(<<"h", "i">>)>>

(* ------------------------- the accumulator ---------------------------- *)

\* the value of the field a flag of Flagged names
FieldValue(g, fid) == IF fid[2] = 0 THEN g[fid[1]] ELSE g[fid[1]][fid[2]]

Sets(a, v) == {[fld |-> <<a, 0>>, val |-> v]}
SetsAxis(a, k, v) == {[fld |-> <<a, k>>, val |-> v]}

\* the documented effect of a statement: the fields it assigns, each with
\* the value it gets (the letter table of the accumulator)
TableRow(u) ==
    LET c == u[1]
        v == strtod(u \o <<0>>, 1).value
        n == IntCast(v)
    IN  IF c = Ord("G")
        THEN CASE n = 0 -> Sets("next_action", NEXT_ACTION_MOTION)
                              \cup Sets("motion_mode", MOTION_MODE_STRAIGHT_TRAVERSE)
               [] n = 1 -> Sets("next_action", NEXT_ACTION_MOTION)
                              \cup Sets("motion_mode", MOTION_MODE_STRAIGHT_FEED)
               [] n = 2 -> Sets("next_action", NEXT_ACTION_MOTION)
                              \cup Sets("motion_mode", MOTION_MODE_CW_ARC)
               [] n = 3 -> Sets("next_action", NEXT_ACTION_MOTION)
                              \cup Sets("motion_mode", MOTION_MODE_CCW_ARC)
               [] n = 4 -> Sets("next_action", NEXT_ACTION_DWELL)
               [] n = 17 -> Sets("set_plane", CANON_PLANE_XY)
               [] n = 18 -> Sets("set_plane", CANON_PLANE_XZ)
               [] n = 19 -> Sets("set_plane", CANON_PLANE_YZ)
               [] n = 20 -> Sets("inches_mode", 1)
               [] n = 21 -> Sets("inches_mode", 0)
               [] n \in {28, 30} -> Sets("next_action", NEXT_ACTION_GO_HOME)
               [] n = 53 -> Sets("absolute_override", 1)
               [] n = 80 -> Sets("motion_mode", MOTION_MODE_CANCEL_MOTION_MODE)
               [] n = 90 -> Sets("absolute_mode", 1)
               [] n = 91 -> Sets("absolute_mode", 0)
               [] n = 92 -> Sets("set_origin_mode", 1)
               [] n = 93 -> Sets("inverse_feed_rate_mode", 1)
               [] n = 94 -> Sets("inverse_feed_rate_mode", 0)
               [] OTHER -> {}
        ELSE IF c = Ord("M")
        THEN CASE n \in {0, 1} -> Sets("program_flow", PROGRAM_FLOW_STOP)
               [] n \in {2, 30, 60} -> Sets("program_flow", PROGRAM_FLOW_END)
               [] n = 3 -> Sets("spindle_mode", SPINDLE_CW)
               [] n = 4 -> Sets("spindle_mode", SPINDLE_CCW)
               [] n = 5 -> Sets("spindle_mode", SPINDLE_OFF)
               [] n = 6 -> Sets("change_tool", 1)
               [] OTHER -> {}
        ELSE CASE c = Ord("T") -> Sets("tool", n)
               [] c = Ord("F") -> Sets("feed_rate", v)
               [] c = Ord("P") -> Sets("dwell_time", v)
               [] c = Ord("S") -> Sets("spindle_speed", v)
               [] c = Ord("X") -> SetsAxis("target", 1, v)
               [] c = Ord("Y") -> SetsAxis("target", 2, v)
               [] c = Ord("Z") -> SetsAxis("target", 3, v)
               [] c = Ord("I") -> SetsAxis("offset", 1, v)
               [] c = Ord("J") -> SetsAxis("offset", 2, v)
               [] c = Ord("K") -> SetsAxis("offset", 3, v)
               [] c = Ord("R") -> Sets("radius", v)
               [] OTHER -> {}

\* every field of a model-state record
AllFields ==
    {<<a, 0>> : a \in DOMAIN ZERO_MODEL_STATE \ {"target", "offset"}}
    \cup ({"target", "offset"} \X (1..3))

\* the statement parsed alone, from the same machine state, gives each field
\* it is documented to assign the documented value and flags exactly those
\* fields
StatementFollowsTable(u) ==
    /\ Flagged(StatementAlone(u).gf) = {r.fld : r \in TableRow(u)}
    /\ \A r \in TableRow(u) :
          /\ FieldValue(StatementAlone(u).gn, r.fld) = r.val
          /\ FieldValue(StatementAlone(u).gf, r.fld) = 1

\* the statements of the block that assign the field
Assigners(us, fid) == {k \in 1..Len(us) : \E r \in TableRow(us[k]) : r.fld = fid}

LastAssigned(us, fid) ==
    LET k == CHOOSE m \in Assigners(us, fid) : \A n \in Assigners(us, fid) : n <= m
    IN  (CHOOSE r \in TableRow(us[k]) : r.fld = fid).val

\* after the parse a flag is set exactly when a statement of the block
\* assigned its field; a flagged field holds what the last such statement
\* gave it, any other field its value from the start of the block
FlagsFollowBlock(us) ==
    \A fid \in AllFields :
        IF Assigners(us, fid) # {}
        THEN FieldValue(gf, fid) = 1 /\ FieldValue(gn, fid) = LastAssigned(us, fid)
        ELSE /\ FieldValue(gf, fid) = 0
             /\ FieldValue(gn, fid) = FieldValue(ParseStart(gm0, gp).gn, fid)

\* the last call parsed a block all of whose statements are valid
ParsedValid == Parsed /\ ParseStatus = TG_OK

\* C12 as stated: every valid statement consumed by the accumulator sets
\* exactly one changed-field flag, the flagged field holds the statement's
\* value, and a flag is true after the parse exactly when a statement of the
\* block assigned its field.
C12_OneFlagPerStatement ==
    ParsedValid =>
        /\ \A k \in 1..Len(input.rx) :
              /\ Cardinality(Flagged(StatementAlone(input.rx[k]).gf)) = 1
              /\ StatementFollowsTable(input.rx[k])
        /\ FlagsFollowBlock(input.rx)

\* C12 as amended: every valid statement sets the flag of each field its row
\* of the letter table assigns and of no other: two for G0-G3 (motion mode and
\* next action), none for the codes that are recognized and ignored, one for
\* every other statement; each flagged field holds the statement's value; and a
\* flag is true after the parse exactly when a statement of the block
\* assigned its field.
C12_FlagsFollowTable ==
    ParsedValid =>
        /\ \A k \in 1..Len(input.rx) : StatementFollowsTable(input.rx[k])
        /\ FlagsFollowBlock(input.rx)

\* a block of a motion code, a tool word with a fraction and a line number:
\* two flags from the first, one from the second, none from the third
C12_Witness ==
    /\ ParsedValid
    /\ input.rx = <<Str(<<"G", "1">>), Str(<<"T", "2", ".", "5">>), Str(<<"N", "3">>)>>
    /\ Flagged(gf) = {<<"next_action", 0>>, <<"motion_mode", 0>>, <<"tool", 0>>}
    /\ gn.tool = 2

(* ------------------------------ motion -------------------------------- *)

\* the motion primitive a motion mode selects
MotionFor(mode) ==
    CASE mode = MOTION_MODE_STRAIGHT_TRAVERSE -> {"cm_straight_traverse"}
      [] mode = MOTION_MODE_STRAIGHT_FEED -> {"cm_straight_feed"}
      [] mode \in {MOTION_MODE_CW_ARC, MOTION_MODE_CCW_ARC} -> {"cm_arc_feed"}
      [] OTHER -> {}

MotionCalls == {k \in 1..Len(calls) : calls[k].f \in MotionFuncs}

AllCallsOk == \A k \in 1..Len(calls) : calls[k].status = TG_OK

\* what the block's words and the machine position at block start give axis k
AxisTarget(us, k) ==
    IF Assigners(us, <<"target", k>>) # {}
    THEN LastAssigned(us, <<"target", k>>)
    ELSE gm0.position[k]

\* no statement of the block assigns the next action or the motion mode
NoActionWord(us) ==
    Assigners(us, <<"next_action", 0>>) = {} /\ Assigners(us, <<"motion_mode", 0>>) = {}

GatedSetters ==
    {<<"inverse_feed_rate_mode", "cm_set_inverse_feed_rate_mode">>,
     <<"feed_rate", "cm_set_feed_rate">>,
     <<"spindle_speed", "cm_set_spindle_speed">>,
     <<"tool", "cm_select_tool">>,
     <<"set_plane", "cm_select_plane">>,
     <<"inches_mode", "cm_use_length_units">>,
     <<"absolute_mode", "cm_set_distance_mode">>}

\* the spindle function the flagged spindle mode selects
SpindleFor(mode) ==
    IF mode = SPINDLE_CW THEN "cm_start_spindle_clockwise"
    ELSE IF mode = SPINDLE_CCW THEN "cm_start_spindle_counterclockwise"
    ELSE "cm_stop_spindle_turning"

\* the setter is called, once, with the value of its field
CalledWith(f, args) ==
    Cardinality({k \in 1..Len(calls) : calls[k].f = f}) = 1
    /\ \E k \in 1..Len(calls) : calls[k].f = f /\ calls[k].args = args

ArcBlock ==
    /\ Parsed
    /\ gn.next_action = NEXT_ACTION_MOTION
    /\ gn.motion_mode \in {MOTION_MODE_CW_ARC, MOTION_MODE_CCW_ARC}

EarlierCallsOk ==
    \A k \in 1..Len(calls) : calls[k].f # "cm_arc_feed" => calls[k].status = TG_OK

\* C14: for a block whose next action is MOTION with an arc motion mode and
\* in which every call before the arc succeeds, each flagged setter (feed-rate
\* mode, feed rate, spindle speed, tool, spindle, plane, units, distance mode)
\* is called before the arc primitive and none is skipped; cm_arc_feed is the
\* last call, receives the three targets, the three offsets, the radius and
\* the motion mode, and its status is what the entry point returns.
C14_ArcAfterAllSetters ==
    (ArcBlock /\ EarlierCallsOk) =>
        /\ calls # <<>>
        /\ calls[Len(calls)].f = "cm_arc_feed"
        /\ calls[Len(calls)].args =
              gn.target \o gn.offset \o <<gn.radius, gn.motion_mode>>
        /\ ret = calls[Len(calls)].status
        /\ \A g \in GatedSetters :
              IF gf[g[1]] # 0 THEN CalledWith(g[2], <<gn[g[1]]>>) ELSE ~CalledCm(g[2])
        /\ \A f \in SpindleFuncs :
              CalledCm(f) <=> (gf.spindle_mode # 0 /\ f = SpindleFor(gn.spindle_mode))

\* an arc block whose plane word comes after G2 and whose offset is given:
\* the plane is selected before the arc is fed
C14_Witness ==
    /\ ArcBlock
    /\ input.rx = <<Str(<<"G", "2">>), Str(<<"I", "1">>), Str(<<"G", "1", "7">>)>>
    /\ Len(calls) = 2
    /\ calls[1].f = "cm_select_plane"
    /\ calls[2].f = "cm_arc_feed"
    /\ calls[2].args = <<0, 0, 0, 100, 0, 0, 0, MOTION_MODE_CW_ARC>>

(* ------------------------- flags across blocks ------------------------ *)

\* the fields the statements of the block assign
AssignedFields(us) == {fid \in AllFields : Assigners(us, fid) # {}}

\* C15: over any sequence of blocks a flag-gated setter (feed-rate mode, feed
\* rate, spindle speed, tool select, spindle direction, plane, units, distance
\* mode) is called for a block only if a statement of that block assigned its
\* field, and it is handed the value that block gave the field; the flags a
\* parsed block leaves are all of fields its own statements assigned.
C15_SettersOnlyFromOwnBlock ==
    /\ \A k \in 1..Len(calls) :
          /\ \A g \in GatedSetters :
                calls[k].f = g[2] =>
                    /\ <<g[1], 0>> \in AssignedFields(input.rx)
                    /\ calls[k].args = <<LastAssigned(input.rx, <<g[1], 0>>)>>
          /\ calls[k].f \in SpindleFuncs =>
                /\ <<"spindle_mode", 0>> \in AssignedFields(input.rx)
                /\ calls[k].f = SpindleFor(LastAssigned(input.rx, <<"spindle_mode", 0>>))
    /\ Parsed => Flagged(gf) \subseteq AssignedFields(input.rx)

\* a one-word motion block handed over after an earlier block: the motion is
\* its only call and no setter flag is left standing
C15_Witness ==
    /\ Parsed
    /\ nrx = 3
    /\ input.rx = <<Str(<<"G", "1">>)>>
    /\ Len(calls) = 1
    /\ calls[1].f = "cm_straight_feed"
    /\ Flagged(gf) = {<<"next_action", 0>>, <<"motion_mode", 0>>}

(* ---------------------------- the tokenizer --------------------------- *)

\* the calls of _gc_next_statement on buf from cursor i on, up to the first
\* that returns FALSE: the statements returned, each with the cursor before
\* and after its call, and the cursor and gp the last call leaves
RECURSIVE Tokenize(_, _, _)

TokenizeOn(buf, i, toks, t) ==
    IF t.found
    THEN Tokenize(buf, t.i,
                  [gp |-> t.gp,
                   toks |-> Append(toks, [letter |-> t.gp.letter, value |-> t.gp.value,
                                          from |-> i, to |-> t.i])])
    ELSE [toks |-> toks, i |-> t.i, gp |-> t.gp]

Tokenize(buf, i, s) == TokenizeOn(buf, i, s.toks, gc_next_statement(buf, i, s.gp))

Tokens(buf) == Tokenize(buf, 0, [gp |-> [GpInit EXCEPT !.status = TG_OK], toks |-> <<>>])

\* where statement k of the block starts in the line
RECURSIVE StartOf(_, _)
StartOf(us, k) == IF k = 1 THEN 0 ELSE StartOf(us, k - 1) + Len(us[k - 1])

\* C16: repeated tokenizer calls on a command made of well-formed
\* letter+number statements return every statement once, left to right, with
\* its letter and value; each successful call moves the cursor forward to the
\* first character after the statement it returned; the call at the end of
\* the string returns no statement and sets no error status.
C16_TokenizerYieldsEachStatement ==
    Parsed =>
        /\ Len(Tokens(block).toks) = Len(input.rx)
        /\ \A k \in 1..Len(input.rx) :
              /\ Tokens(block).toks[k].letter = input.rx[k][1]
              /\ Tokens(block).toks[k].value = strtod(input.rx[k] \o <<0>>, 1).value
              /\ Tokens(block).toks[k].from = StartOf(input.rx, k)
              /\ Tokens(block).toks[k].to = StartOf(input.rx, k) + Len(input.rx[k])
              /\ Tokens(block).toks[k].to > Tokens(block).toks[k].from
        /\ Tokens(block).i = Len(input.line)
        /\ At(block, Tokens(block).i) = 0
        /\ Tokens(block).gp.status = TG_OK

\* C17: at most one motion primitive (straight traverse, straight feed, arc
\* feed) is called per block; it is called only when next action is MOTION and
\* the motion mode selects it; it is the last canonical-machine call of the
\* block and its status is what the entry point returns.
C17_OneMotionLast ==
    /\ Cardinality(MotionCalls) <= 1
    /\ \A m \in MotionCalls :
          /\ m = Len(calls)
          /\ Parsed
          /\ gn.next_action = NEXT_ACTION_MOTION
          /\ calls[m].f \in MotionFor(gn.motion_mode)
          /\ ret = calls[m].status
          /\ gp.status = calls[m].status

\* a feed block whose motion call fails after its feed rate was set, on a
\* machine an earlier block left in arc mode
C17_Witness ==
    /\ Parsed
    /\ gm0.motion_mode = MOTION_MODE_CW_ARC
    /\ Len(calls) = 2
    /\ calls[1].f = "cm_set_feed_rate"
    /\ calls[2].f = "cm_straight_feed"
    /\ calls[2].status # TG_OK
    /\ ret = calls[2].status

(* ------------------------------ comments ------------------------------ *)

\* C18: for every line the normalized command equals the normalization of
\* the text before its first '(' alone; no character at or after the first
\* '(', text after a closing ')' included, appears in the command, and the
\* tokenizer never reads past the end of the command.
C18_CommandEndsAtComment ==
    /\ CStr(block) = CStr(NormalizeBlock(BeforeComment(input.line) \o <<0>>).block)
    /\ Len(CStr(block)) <= Len(BeforeComment(input.line))
    /\ Tokens(block).i <= Len(CStr(block))

\* a statement, an opening parenthesis and a statement after it: only the
\* first statement is in the command and is executed
C18_Witness ==
    /\ input.rx = <<Str(<<"G", "1">>), Str(<<"(">>), Str(<<"G", "1">>)>>
    /\ CStr(block) = Str(<<"G", "1">>)
    /\ Len(Tokens(block).toks) = 1
    /\ Len(calls) = 1

\* the line has a comment of fewer than three characters before its end
ShortComment(ln) == ~BlockDeleted(ln) /\ HasComment(ln) /\ Len(AfterParen(ln)) < 3

\* C19: the test for the MSG prefix never reads a character beyond the
\* line's terminating NUL; a comment of 0, 1 or 2 characters before the end of
\* the string is read up to the NUL at most, and emits no message.
C19_MsgTestStaysInLine ==
    /\ \A k \in NormalizeMsgReads(input.line \o <<0>>) : k <= Len(input.line)
    /\ ShortComment(input.line) =>
          /\ NormalizeMsgReads(input.line \o <<0>>) # {}
          /\ msgs = <<>>

\* the line (MS: the test reads M, S and then the NUL, and stops
C19_Witness ==
    /\ input.line = Str(<<"(", "M", "S">>)
    /\ NormalizeMsgReads(input.line \o <<0>>) = {1, 2, 3}
    /\ msgs = <<>>
    /\ ret = TG_OK

(* ---------------------------- next action ----------------------------- *)

\* the calls gated by the value of next action
ActionFuncs ==
    {"cm_dwell", "cm_return_to_home", "cm_set_origin_offsets"} \cup MotionFuncs

ActionCalls == {k \in 1..Len(calls) : calls[k].f \in ActionFuncs}

\* the call a next action, with the motion mode, stands for
ActionFor(action, mode) ==
    CASE action = NEXT_ACTION_DWELL -> {"cm_dwell"}
      [] action = NEXT_ACTION_GO_HOME -> {"cm_return_to_home"}
      [] action = NEXT_ACTION_OFFSET_COORDINATES -> {"cm_set_origin_offsets"}
      [] action = NEXT_ACTION_MOTION -> MotionFor(mode)
      [] OTHER -> {}

\* C20: in any block at most one of dwell, return to home, set origin
\* offsets and a motion primitive is called; when the block holds several of
\* G0-G3, G4 and G28/G30 the last of them in input order decides the next
\* action, only its call is made, and with every earlier call succeeding it
\* is made.
C20_LastActionWordDecides ==
    /\ Cardinality(ActionCalls) <= 1
    /\ (ParsedValid /\ Assigners(input.rx, <<"next_action", 0>>) # {}) =>
          /\ gn.next_action = LastAssigned(input.rx, <<"next_action", 0>>)
          /\ \A k \in ActionCalls :
                calls[k].f \in ActionFor(LastAssigned(input.rx, <<"next_action", 0>>),
                                         gn.motion_mode)
          /\ AllCallsOk =>
                {calls[k].f : k \in ActionCalls} =
                    ActionFor(LastAssigned(input.rx, <<"next_action", 0>>), gn.motion_mode)

\* dwell, home and feed words in one block: the feed alone is performed
C20_Witness ==
    /\ ParsedValid
    /\ input.rx = <<Str(<<"G", "4">>), Str(<<"G", "2", "8">>), Str(<<"G", "1">>)>>
    /\ Len(calls) = 1
    /\ calls[1].f = "cm_straight_feed"

(* --------------------------- origin offsets --------------------------- *)

Handed == input.line \o <<0>>

\* the stores of the last step made by the given part of the function
StoresOf(phase) == {nz.stores[k] : k \in {m \in DOMAIN nz.stores : nz.stores[m].phase = phase}}

\* the index of the character the copy loop read last
LastRead == (nz.i + 255) % 256

\* the pass-by-pass run leaves the buffer and the messages of the function
\* run as a whole
NormalizeStepsAgree ==
    (nz.pc = "idle" /\ nz.stores # <<>> /\ Len(input.line) <= 16) =>
        /\ block = NormalizeBlock(Handed).block
        /\ msgs = NormalizeBlock(Handed).msgs

\* C22 as stated: during in-place normalization of a NUL-terminated line of at
\* most 255 characters, every store to the buffer made by gcode.c:146-175 is
\* at a write index strictly smaller than the current 8-bit read index.
C22_StoresBelowReadIndex ==
    \A st \in StoresOf("delete") \cup StoresOf("copy") \cup StoresOf("terminate") :
        st.at < st.i

\* C22 amended: for a NUL-terminated line of at most 255 characters, every
\* store of the copy loop is at a write index strictly smaller than the read
\* index; the terminating store after the loop is at most at the index of the
\* character that ended the loop (the read index has wrapped to 0 when that
\* character is the NUL of a 255-character line); the block-delete store is
\* made with the read index still 0 and overwrites the '/' at index 0.  No
\* not-yet-read character is overwritten, the copy loop ends at the NUL or at
\* the first '(', no character of the comment is overwritten by
\* gcode.c:146-175 (the message handling after them replaces the first ')' of
\* a MSG comment by NUL), and the command is NUL-terminated inside the
\* original buffer.
C22_StoresBehindReads ==
    /\ Len(block) = Len(Handed)
    /\ \A st \in StoresOf("copy") : st.at < st.i
    /\ \A st \in StoresOf("terminate") : st.i = nz.i /\ st.at <= LastRead
    /\ \A st \in StoresOf("delete") :
          st.at = 0 /\ st.i = 0 /\ At(Handed, 0) = Ord("/") /\ At(block, 0) = 0
    /\ nz.pc = "loop" =>
          \A k \in nz.i..Len(input.line) : At(block, k) = At(Handed, k)
    /\ nz.pc = "end" =>
          /\ At(Handed, LastRead) \in {0, Ord("(")}
          /\ \A k \in 0..(LastRead - 1) : At(Handed, k) \notin {0, Ord("(")}
          /\ (nz.comment = -1) = (At(Handed, LastRead) = 0)
          /\ nz.comment # -1 =>
                /\ nz.comment = LastRead + 1
                /\ \A k \in nz.comment..Len(input.line) : At(block, k) = At(Handed, k)
    /\ (nz.pc = "idle" /\ StoresOf("terminate") # {}) =>
          /\ nz.j <= Len(input.line)
          /\ At(block, nz.j) = 0
          /\ \A k \in 0..(nz.j - 1) : At(block, k) # 0
          /\ nz.comment # -1 =>
                \A k \in nz.comment..Len(input.line) :
                    \/ At(block, k) = At(Handed, k)
                    \/ /\ At(Handed, k) = Ord(")")
                       /\ At(block, k) = 0
                       /\ \E st \in StoresOf("strip") : st.at = k

\* a line of 255 kept characters: the NUL is read at index 255, the read
\* index wraps to 0, and the command is terminated at index 255
C22_Witness ==
    /\ nz.pc = "idle"
    /\ Len(input.line) = MaxLine
    /\ nz.stores = <<Store(MaxLine, 0, "terminate")>>
    /\ At(block, MaxLine) = 0

(* ------------------------- the real-time clock ------------------------ *)

\* a step of rtc_callback that found the flag clear
RtcNoopStep == rtc.pc = "idle" /\ ~dev.rtc_flag /\ rtc'.fired = rtc.fired

\* a step of rtc_callback that found the flag set
RtcHitStep == rtc.pc = "idle" /\ dev.rtc_flag /\ rtc'.fired = rtc.fired

\* the step in which a call that found the flag set does its work and returns
RtcRunStep == rtc.pc = "set" /\ rtc'.pc = "idle"

\* C23: a call of rtc_callback that finds the tick flag clear returns SC_NOOP
\* and changes no counter; a call that finds it set clears it and runs
\* rtc_10ms exactly once, rtc_100ms on exactly every 10th such call and
\* rtc_1sec on exactly every 100th; both down-counters are in 1..10 between
\* calls; rtc_10ms has never run more often than the timer interrupt fired.
C23_RtcCallbackCounts ==
    /\ [](/\ dev.rtc_100ms_count \in 1..10
          /\ dev.rtc_1sec_count \in 1..10
          /\ rtc.rtc_10ms <= rtc.fired
          /\ rtc.pc = "idle" =>
                /\ rtc.rtc_10ms = rtc.hits
                /\ rtc.rtc_100ms = rtc.hits \div 10
                /\ rtc.rtc_1sec = rtc.hits \div 100)
    /\ [][/\ RtcNoopStep =>
                /\ rtc'.ret = SC_NOOP
                /\ rtc' = [rtc EXCEPT !.ret = SC_NOOP]
                /\ dev' = dev
          /\ RtcHitStep => rtc'.pc = "set" /\ rtc'.hits = rtc.hits + 1
          /\ RtcRunStep =>
                /\ ~dev'.rtc_flag
                /\ rtc'.ret = SC_OK
                /\ rtc'.rtc_10ms = rtc.rtc_10ms + 1
                /\ rtc'.rtc_100ms = rtc.rtc_100ms + (IF rtc.hits % 10 = 0 THEN 1 ELSE 0)
                /\ rtc'.rtc_1sec = rtc.rtc_1sec + (IF rtc.hits % 100 = 0 THEN 1 ELSE 0)]_vars

\* the 100th call that found the flag set has returned: the one-second task
\* has run once, the 100 ms task ten times, and both counters are reloaded
C23_Witness ==
    /\ rtc.pc = "idle"
    /\ rtc.hits = 100
    /\ rtc.rtc_10ms = 100
    /\ rtc.rtc_100ms = 10
    /\ rtc.rtc_1sec = 1
    /\ dev.rtc_100ms_count = 10
    /\ dev.rtc_1sec_count = 10
    /\ rtc.ret = SC_OK

(* ------------------------- the device registers ----------------------- *)

\* (addr - KINEN_COMMON_MAX) modulo 256
WrappedOffset(addr) == (addr - kinen.common_max) % 256

\* the address is one of a device register
InRegisterFile(addr) == WrappedOffset(addr) < kinen.address_max

\* C24: over all 8-bit addresses, when (addr - KINEN_COMMON_MAX) modulo 256 is
\* below DEVICE_ADDRESS_MAX, device_write_byte stores the byte and a
\* following device_read_byte at the same address returns SC_OK with that
\* byte, the other registers unchanged; for every other address both return
\* SC_INVALID_ADDRESS and neither the register array nor the caller's output
\* byte is modified; no access falls outside the array.
C24_RegisterAccess ==
    /\ [](/\ Len(device_array) = kinen.address_max
          /\ acc.index \in {-1} \cup (0..(Len(device_array) - 1))
          /\ (acc.op # "none" /\ InRegisterFile(acc.addr)) =>
                /\ acc.ret = SC_OK
                /\ acc.index = WrappedOffset(acc.addr)
                /\ acc.op = "write" => At(device_array, acc.index) = acc.data
                /\ acc.op = "read" => out = At(device_array, acc.index)
          /\ (acc.op # "none" /\ ~InRegisterFile(acc.addr)) =>
                /\ acc.ret = SC_INVALID_ADDRESS
                /\ acc.index = -1)
    /\ [][/\ (acc'.op = "write" /\ InRegisterFile(acc'.addr)) =>
                /\ device_array' = Put(device_array, WrappedOffset(acc'.addr), acc'.data)
                /\ out' = out
          /\ (acc'.op = "read" /\ InRegisterFile(acc'.addr)) =>
                /\ device_array' = device_array
                /\ out' = At(device_array, WrappedOffset(acc'.addr))
          /\ (acc.op = "write" /\ acc'.op = "read" /\ acc'.addr = acc.addr
              /\ InRegisterFile(acc.addr)) =>
                acc'.ret = SC_OK /\ out' = acc.data
          /\ ~InRegisterFile(acc'.addr) =>
                device_array' = device_array /\ out' = out]_vars

\* with the register file at addresses 255 and 0, the byte written at
\* address 0 (offset 1 after the wrap) has been read back
C24_Witness ==
    /\ kinen = [common_max |-> 255, address_max |-> 2]
    /\ acc = [op |-> "read", addr |-> 0, data |-> 0, ret |-> SC_OK, index |-> 1]
    /\ device_array = <<0, 255>>
    /\ out = 255

====
